---- MODULE Spec2Model ----
(***************************************************************************)
(* Progress persistence and recovery of the photo rating app: the snapshot *)
(* store (progressStorage), the auto-save scheduler (useProgressManager)   *)
(* and the App handlers that drive them.                                   *)
(*                                                                         *)
(* JavaScript values are modelled as follows.  An object is a function     *)
(* from its own property names to their values; a property that is absent  *)
(* reads as undefined.  An array is a sequence.  A string item held by     *)
(* localStorage is modelled by what JSON.parse makes of it (see JsonText). *)
(* Times are milliseconds.                                                 *)
(*                                                                         *)
(* The page is single-threaded: a handler or callback, the render that     *)
(* follows its state updates and the effects of that render are one step.  *)
(***************************************************************************)
EXTENDS Integers, Sequences, FiniteSets, TLC

VARIABLES
    localStorage,       \* window.localStorage: key -> stored string
    now,                \* Date.now()
    phase,              \* "closed": no page; "open": the App is mounted
    images,             \* App: useState<ImageData[]>
    currentImageIndex,  \* App: useState<number>
    imageRatings,       \* App: useState<{[path]: Rating[]}>
    imageNotes,         \* App: useState<{[path]: string}>
    zipFileName,        \* App: useState<string>
    error,              \* App: useState<string | null>
    isRestoreMode,      \* App: useState<boolean>
    shuffleImages,      \* App: useState<boolean>
    stagedZipFile,      \* App: useState<File | null>, a file
    minRatingFilter,    \* App: useState<number>
    sessionId,          \* useProgressManager: useState(generateSessionId)
    storageInfo,        \* useProgressManager: useState<StorageInfo>
    lastSaveTime,       \* useProgressManager: useState<number | null>
    latestDataRef,      \* useProgressManager: useRef, its .current
    autoSaveTimeoutRef, \* useProgressManager: useRef, its .current (a timer id)
    timers,             \* the browser's timeouts that are still to fire
    sessions,           \* how many times the page has been loaded
    loading,            \* the calls of processZipFile awaiting their extraction
    revokedURLs,        \* object URL -> how often URL.revokeObjectURL got it
    ratingsIssued,      \* how many Rating ids have been generated
    events,             \* how many user inputs have been handled
    written,            \* history: the last accepted save not yet cleared
    burst,              \* history: the saves since the last mutation
    lastOp              \* history: the operation that produced this state

liveVars == <<images, currentImageIndex, imageRatings, imageNotes, zipFileName>>

uiVars == <<error, isRestoreMode, shuffleImages, stagedZipFile, minRatingFilter>>

hookVars == <<storageInfo, lastSaveTime, latestDataRef, autoSaveTimeoutRef, timers>>

historyVars == <<written, burst>>

\* everything but the store, the clock, the live state and the session id
appVars == <<phase, uiVars, hookVars, sessions, loading, revokedURLs, ratingsIssued, events, historyVars>>

vars == <<localStorage, now, phase, liveVars, uiVars, sessionId, hookVars,
          sessions, loading, revokedURLs, ratingsIssued, events, historyVars,
          lastOp>>

----------------------------------------------------------------------------
(* Bounds of the model *)

\* how many short steps the clock may take between two long ones
MaxShortTicks == 3

\* how many long steps (of SESSION_TIMEOUT) the clock may take
MaxLongTicks == 1

\* how many times the page may be loaded
MaxSessions == 2

\* how many user inputs may be handled in all
MaxEvents == 5

\* how many calls of processZipFile may await their extraction at once
MaxLoading == 2

(* Program constants *)

STORAGE_KEY == "photorating_progress"

SESSION_TIMEOUT == 7 * 24 * 60 * 60 * 1000

\* The clock starts late enough for a stored timestamp to be more than
\* SESSION_TIMEOUT in the past.
StartTime == SESSION_TIMEOUT + 2000

\* the quiet period of the auto-save debounce
AUTO_SAVE_DELAY == 2000

\* Time advances in steps of half the quiet period, or by a whole
\* SESSION_TIMEOUT at once.
HalfDelay == AUTO_SAVE_DELAY \div 2

TickSteps == {HalfDelay, SESSION_TIMEOUT}

\* the clock may advance by d at time t
MayTick(t, d) ==
    IF d = SESSION_TIMEOUT
    THEN (t - StartTime) \div SESSION_TIMEOUT < MaxLongTicks
    ELSE ((t - StartTime) % SESSION_TIMEOUT) + d <= MaxShortTicks * HalfDelay

----------------------------------------------------------------------------
(* JavaScript objects and JSON *)

EmptyObj == [k \in {} |-> 0]

Has(obj, k) == k \in DOMAIN obj

\* {...obj, [k]: v}
Put(obj, k, v) == [x \in DOMAIN obj \cup {k} |-> IF x = k THEN v ELSE obj[x]]

\* delete obj[k]
Remove(obj, k) == [x \in DOMAIN obj \ {k} |-> obj[x]]

\* A stored string, by what JSON.parse makes of it:
\*   kind "object"  : the JSON text of an object with the properties obj
\*   kind "null"    : the JSON text null
\*   kind "garbage" : not JSON, JSON.parse throws a SyntaxError
\*   kind "empty"   : the empty string (falsy; JSON.parse would throw)
JsonText(kind, obj) == [kind |-> kind, obj |-> obj]

\* JSON.stringify of an object all of whose values are strings, integers,
\* arrays and objects of such: every property is written, none is dropped.
JSONstringify(obj) == JsonText("object", obj)

\* JSON.parse: [throws, isNull, value]
JSONparse(text) ==
    CASE text.kind = "object" -> [throws |-> FALSE, isNull |-> FALSE, value |-> text.obj]
      [] text.kind = "null"   -> [throws |-> FALSE, isNull |-> TRUE,  value |-> EmptyObj]
      [] OTHER                -> [throws |-> TRUE,  isNull |-> FALSE, value |-> EmptyObj]

\* localStorage.setItem(k, text), when the write is accepted
setItem(ls, k, text) == Put(ls, k, text)

\* localStorage.removeItem(k)
removeItem(ls, k) == Remove(ls, k)

----------------------------------------------------------------------------
(* progressStorage *)

\* images.map(img => img.path)
PathsOf(imgs) == [i \in 1..Len(imgs) |-> imgs[i].path]

\* images.map(img => ({path, size: img.blob.size, lastModified}));
\* the blobs come from JSZip and are not File objects, so lastModified is Date.now()
MetadataOf(imgs, t) ==
    [i \in 1..Len(imgs) |-> [path |-> imgs[i].path, size |-> imgs[i].size, lastModified |-> t]]

ProgressData(sid, t, index, ratings, notes, imgs, zip) ==
    [sessionId         |-> sid,
     timestamp         |-> t,
     currentImageIndex |-> index,
     imageRatings      |-> ratings,
     imageNotes        |-> notes,
     imageMetadata     |-> MetadataOf(imgs, t),
     imageOrder        |-> PathsOf(imgs),
     zipFileName       |-> zip]

clearProgress(ls) == removeItem(ls, STORAGE_KEY)

\* saveProgress as it would be if the notes were left out of the snapshot
saveProgress_withoutNotes(ls, t, sid, index, ratings, notes, imgs, zip, quotaOk) ==
    LET progressData == ProgressData(sid, t, index, ratings, EmptyObj, imgs, zip)
    IN  IF quotaOk
        THEN [storage |-> setItem(ls, STORAGE_KEY, JSONstringify(progressData)),
              raised  |-> FALSE]
        ELSE [storage |-> ls, raised |-> FALSE]

\* saveProgress as it would be if each session wrote under a key of its own
saveProgress_perSessionKey(ls, t, sid, index, ratings, notes, imgs, zip, quotaOk) ==
    LET progressData == ProgressData(sid, t, index, ratings, notes, imgs, zip)
    IN  IF quotaOk
        THEN [storage |-> setItem(ls, STORAGE_KEY \o "_" \o sid,
                                  JSONstringify(progressData)),
              raised  |-> FALSE]
        ELSE [storage |-> ls, raised |-> FALSE]

\* saveProgress as it would be without its try/catch
saveProgress_unguarded(ls, t, sid, index, ratings, notes, imgs, zip, quotaOk) ==
    LET progressData == ProgressData(sid, t, index, ratings, notes, imgs, zip)
    IN  IF quotaOk
        THEN [storage |-> setItem(ls, STORAGE_KEY, JSONstringify(progressData)),
              raised  |-> FALSE]
        ELSE [storage |-> ls, raised |-> TRUE]

\* saveProgress at time t; quotaOk says whether localStorage.setItem accepts
\* the write (it throws QuotaExceededError otherwise and stores nothing).
\* The whole body is inside try/catch: nothing is raised to the caller.
saveProgress(ls, t, sid, index, ratings, notes, imgs, zip, quotaOk) ==
    LET progressData == ProgressData(sid, t, index, ratings, notes, imgs, zip)
    IN  IF quotaOk
        THEN [storage |-> setItem(ls, STORAGE_KEY, JSONstringify(progressData)),
              raised  |-> FALSE]
        ELSE [storage |-> ls, raised |-> FALSE]

\* isExpired as it would be with the subtraction the other way round
isExpired_reversed(progressData, t) ==
    IF Has(progressData, "timestamp")
    THEN progressData.timestamp - t > SESSION_TIMEOUT
    ELSE FALSE

\* Date.now() - progressData.timestamp > SESSION_TIMEOUT; with timestamp
\* undefined the difference is NaN and the comparison is false
isExpired(progressData, t) ==
    IF Has(progressData, "timestamp")
    THEN t - progressData.timestamp > SESSION_TIMEOUT
    ELSE FALSE

NullResult == [isNull |-> TRUE, data |-> EmptyObj]

\* loadProgress as it would be if it returned only snapshots whose sessionId
\* is that of the session that loads
loadProgress_ownSession(ls, t) ==
    IF ~Has(ls, STORAGE_KEY) THEN [storage |-> ls, ret |-> NullResult]
    ELSE IF ls[STORAGE_KEY].kind = "empty" THEN [storage |-> ls, ret |-> NullResult]
    ELSE LET parsed == JSONparse(ls[STORAGE_KEY])
         IN  IF parsed.throws \/ parsed.isNull
             THEN [storage |-> clearProgress(ls), ret |-> NullResult]
             ELSE IF isExpired(parsed.value, t)
             THEN [storage |-> clearProgress(ls), ret |-> NullResult]
             ELSE IF Has(parsed.value, "sessionId") /\ parsed.value.sessionId # sessionId
             THEN [storage |-> ls, ret |-> NullResult]
             ELSE [storage |-> ls, ret |-> [isNull |-> FALSE, data |-> parsed.value]]

\* loadProgress at time t: [storage, ret], ret = [isNull, data]
loadProgress(ls, t) ==
    IF ~Has(ls, STORAGE_KEY) THEN [storage |-> ls, ret |-> NullResult]
    ELSE IF ls[STORAGE_KEY].kind = "empty" THEN [storage |-> ls, ret |-> NullResult]
    ELSE LET parsed == JSONparse(ls[STORAGE_KEY])
         IN  IF parsed.throws \/ parsed.isNull
             THEN \* SyntaxError, or TypeError reading null.timestamp: the catch block
                  [storage |-> clearProgress(ls), ret |-> NullResult]
             ELSE IF isExpired(parsed.value, t)
             THEN [storage |-> clearProgress(ls), ret |-> NullResult]
             ELSE [storage |-> ls, ret |-> [isNull |-> FALSE, data |-> parsed.value]]

\* the count as it would be if it were of the paths that have a rating
SumLengths_ratedPaths(obj, keys) == Cardinality({k \in keys : Len(obj[k]) > 0})

RECURSIVE SumLengths(_, _)
\* keys.reduce((total, k) => total + obj[k].length, 0)
SumLengths(obj, keys) ==
    IF keys = {} THEN 0
    ELSE LET k == CHOOSE x \in keys : TRUE
         IN  Len(obj[k]) + SumLengths(obj, keys \ {k})

NoStoredProgress == [hasStoredProgress |-> FALSE]

\* the properties of src that are defined, among those named
Defined(src, names) == [k \in names \cap DOMAIN src |-> src[k]]

\* getStorageInfo at time t: [storage, ret], ret the StorageInfo object
getStorageInfo(ls, t) ==
    IF ~Has(ls, STORAGE_KEY) THEN [storage |-> ls, ret |-> NoStoredProgress]
    ELSE IF ls[STORAGE_KEY].kind = "empty" THEN [storage |-> ls, ret |-> NoStoredProgress]
    ELSE LET parsed == JSONparse(ls[STORAGE_KEY])
             progressData == parsed.value
         IN  IF parsed.throws \/ parsed.isNull
             THEN [storage |-> clearProgress(ls), ret |-> NoStoredProgress]
             ELSE IF isExpired(progressData, t)
             THEN [storage |-> clearProgress(ls), ret |-> NoStoredProgress]
             ELSE IF ~Has(progressData, "imageRatings") \/ ~Has(progressData, "imageMetadata")
             THEN \* Object.values(undefined) or undefined.length: TypeError, the catch block
                  [storage |-> clearProgress(ls), ret |-> NoStoredProgress]
             ELSE [storage |-> ls,
                   ret |-> [hasStoredProgress |-> TRUE,
                            imageCount |-> Len(progressData.imageMetadata),
                            ratedCount |-> SumLengths(progressData.imageRatings,
                                                      DOMAIN progressData.imageRatings)]
                           @@ Defined(progressData, {"sessionId", "timestamp", "zipFileName"})]

----------------------------------------------------------------------------
(* Values of the hook's state *)

\* T | null
Null == [isNull |-> TRUE]
Some(v) == [isNull |-> FALSE, value |-> v]

\* latestDataRef.current as it would be if the effect that refreshes it left
\* the index of the previous render in place
LatestData_staleIndex(imgs, index, ratings, notes, zip) ==
    [images |-> imgs, currentImageIndex |-> currentImageIndex,
     imageRatings |-> ratings, imageNotes |-> notes, zipFileName |-> zip]

\* the object held by latestDataRef.current
LatestData(imgs, index, ratings, notes, zip) ==
    [images |-> imgs, currentImageIndex |-> index, imageRatings |-> ratings,
     imageNotes |-> notes, zipFileName |-> zip]

\* a timeout set by setTimeout: its id and the time it is due
Timer(id, due) == [id |-> id, due |-> due]

\* clearTimeout(ref.current), guarded by if (ref.current)
clearTimeout(ts, ref) ==
    IF ref.isNull THEN ts ELSE {timer \in ts : timer.id # ref.value}

\* the arguments of a saveProgress call and the time it was made
SaveArgs(sid, t, index, ratings, notes, imgs, zip) ==
    [sessionId |-> sid, at |-> t, currentImageIndex |-> index,
     imageRatings |-> ratings, imageNotes |-> notes, images |-> imgs,
     zipFileName |-> zip]

\* written: the arguments of the last save that localStorage accepted, until
\* the slot is emptied
NothingWritten == [some |-> FALSE, data |-> EmptyObj]
Written(args) == [some |-> TRUE, data |-> args]

\* burst: when the last mutation of the live state was made, how many
\* debounced saves have fired since (counted up to 2), and whether a manual
\* save ran since while a timer was pending
NoBurst == [at |-> 0, debounced |-> 0, manual |-> FALSE]
BurstAt(t) == [at |-> t, debounced |-> 0, manual |-> FALSE]

\* the properties of a snapshot (ProgressData)
SnapshotKeys ==
    {"sessionId", "timestamp", "currentImageIndex", "imageRatings", "imageNotes",
     "imageMetadata", "imageOrder", "zipFileName"}

SlotPresent(ls) == Has(ls, STORAGE_KEY)

\* the item is the JSON text of an object with every property of a snapshot
WellFormed(item) == item.kind = "object" /\ DOMAIN item.obj = SnapshotKeys

----------------------------------------------------------------------------
(* The history variable lastOp *)

\* caller  : the handler or callback that ran ("" when the store is driven
\*           directly)
\* by      : the store function it called, "none" when it called none
\* quotaOk : whether localStorage accepted writes during it
\* raised  : whether the store function raised to its caller
\* pre     : localStorage before the store call it made
\* post    : localStorage after that call
\* ret     : what that call returned
\* follows : the operation that ran just before, "" when time has passed since
Op(caller, by, quotaOk, raised, pre, post, ret, follows) ==
    [caller |-> caller, by |-> by, quotaOk |-> quotaOk, raised |-> raised, pre |-> pre,
     post |-> post, ret |-> ret, follows |-> follows]

NoCall(caller) == Op(caller, "none", TRUE, FALSE, EmptyObj, EmptyObj, EmptyObj, "")

\* the name under which a successful save is remembered by the next operation
Follows(op) == IF op.by \in {"saveProgress"} /\ op.quotaOk THEN "saved" ELSE ""

----------------------------------------------------------------------------
(* Data the store is exercised with *)

ImgA == [path |-> "a.jpg", size |-> 10, url |-> "blob:1"]
ImgB == [path |-> "b.jpg", size |-> 20, url |-> "blob:2"]

Rating(id, value, timestamp) == [id |-> id, value |-> value, timestamp |-> timestamp]

\* What a page load may find under STORAGE_KEY, besides nothing: items that
\* are not JSON, JSON that is not a snapshot, and snapshots of an earlier
\* session that are recent, exactly SESSION_TIMEOUT old after one long
\* tick, or already expired.
OldSnapshot(t) ==
    ProgressData("s0", t, 1, "a.jpg" :> <<Rating("r0", 4, t)>>, "b.jpg" :> "old",
                 <<ImgB, ImgA>>, "x.zip")

\* the arguments of the save that left OldSnapshot(t)
OldSaveArgs(t) ==
    SaveArgs("s0", t, 1, "a.jpg" :> <<Rating("r0", 4, t)>>, "b.jpg" :> "old",
             <<ImgB, ImgA>>, "x.zip")

StoredItems ==
    { JsonText("garbage", EmptyObj),
      JsonText("empty", EmptyObj),
      JsonText("null", EmptyObj),
      JSONstringify(Remove(OldSnapshot(StartTime), "timestamp")),
      JSONstringify(Remove(OldSnapshot(StartTime), "imageRatings")),
      JSONstringify(OldSnapshot(StartTime)),
      JSONstringify(OldSnapshot(StartTime - HalfDelay)),
      JSONstringify(OldSnapshot(StartTime - SESSION_TIMEOUT - HalfDelay)) }

InitialStorages == {EmptyObj} \cup {STORAGE_KEY :> item : item \in StoredItems}

StoreImages == {<<>>, <<ImgA, ImgB>>, <<ImgB, ImgA>>}

StoreRatings ==
    { EmptyObj,
      "a.jpg" :> <<Rating("r1", 5, StartTime)>>,
      ("b.jpg" :> <<Rating("r1", 5, StartTime), Rating("r2", 2, StartTime)>>)
          @@ ("z.png" :> <<>>) }

StoreNotes == {EmptyObj, ("a.jpg" :> "hi") @@ ("z.png" :> "")}

----------------------------------------------------------------------------
(* Reconciling freshly extracted images with a saved order *)

\* areImagesCompatible as it would be if it compared the two collections as
\* sets of (path, size)
areImagesCompatible_setBased(storedMetadata, currentImages) ==
    /\ Len(storedMetadata) = Len(currentImages)
    /\ {<<storedMetadata[i].path, storedMetadata[i].size>> : i \in DOMAIN storedMetadata}
         = {<<currentImages[i].path, currentImages[i].size>> : i \in DOMAIN currentImages}

\* areImagesCompatible: same length, and the same path and blob size at
\* every position
areImagesCompatible(storedMetadata, currentImages) ==
    /\ Len(storedMetadata) = Len(currentImages)
    /\ \A i \in 1..Len(storedMetadata) :
          /\ storedMetadata[i].path = currentImages[i].path
          /\ storedMetadata[i].size = currentImages[i].size

\* images.forEach(img => imageMap.set(img.path, img)): a later image
\* replaces an earlier one of the same path
RECURSIVE imageMap(_)
imageMap(imgs) ==
    IF imgs = <<>>
    THEN EmptyObj
    ELSE Put(imageMap(SubSeq(imgs, 1, Len(imgs) - 1)),
             imgs[Len(imgs)].path, imgs[Len(imgs)])

\* reorderImagesFromSavedOrder as it would be if it gave up reordering
reorderImagesFromSavedOrder_asGiven(imgs, savedOrder) == imgs

\* reorderImagesFromSavedOrder as it would be without its test of the lengths
reorderImagesFromSavedOrder_anyLength(imgs, savedOrder) ==
    IF \A i \in 1..Len(savedOrder) : Has(imageMap(imgs), savedOrder[i])
    THEN [i \in 1..Len(savedOrder) |-> imageMap(imgs)[savedOrder[i]]]
    ELSE imgs

\* reorderImagesFromSavedOrder as it would be if it skipped the paths it
\* cannot find
reorderImagesFromSavedOrder_skipping(imgs, savedOrder) ==
    IF Len(savedOrder) # Len(imgs)
    THEN imgs
    ELSE LET found == SelectSeq(savedOrder, LAMBDA p : Has(imageMap(imgs), p))
         IN  [i \in 1..Len(found) |-> imageMap(imgs)[found[i]]]

\* reorderImagesFromSavedOrder: the images in the saved order, or the images
\* as given when the lengths differ or a saved path has no image
reorderImagesFromSavedOrder(imgs, savedOrder) ==
    IF Len(savedOrder) # Len(imgs)
    THEN imgs
    ELSE IF \A i \in 1..Len(savedOrder) : Has(imageMap(imgs), savedOrder[i])
         THEN [i \in 1..Len(savedOrder) |-> imageMap(imgs)[savedOrder[i]]]
         ELSE imgs

\* The function driven directly: arrays of at most MaxLen images, two of
\* which may share a path, and saved orders of at most MaxLen paths, one of
\* which no image has.
MaxLen == 3

ImgC == [path |-> "c.jpg", size |-> 30, url |-> "blob:3"]
ImgA2 == [path |-> "a.jpg", size |-> 11, url |-> "blob:4"]

SeqsUpTo(S, n) == UNION {[1..k -> S] : k \in 0..n}

ReorderImages ==
    {s \in SeqsUpTo({ImgA, ImgB, ImgC, ImgA2}, MaxLen) :
        \A i, j \in DOMAIN s : i # j => s[i] # s[j]}

SavedOrders == SeqsUpTo({"a.jpg", "b.jpg", "c.jpg", "z.png"}, MaxLen)

ReorderCall(imgs, savedOrder, ret) ==
    [caller |-> "", by |-> "reorderImagesFromSavedOrder", images |-> imgs,
     savedOrder |-> savedOrder, ret |-> ret]

ReorderInit ==
    /\ images \in ReorderImages
    /\ localStorage = EmptyObj
    /\ now = StartTime
    /\ currentImageIndex = 0
    /\ imageRatings = EmptyObj
    /\ imageNotes = EmptyObj
    /\ zipFileName = "x.zip"
    /\ sessionId = "s1"
    /\ phase = "closed"
    /\ error = Null
    /\ isRestoreMode = FALSE
    /\ shuffleImages = FALSE
    /\ stagedZipFile = Null
    /\ minRatingFilter = 0
    /\ storageInfo = NoStoredProgress
    /\ lastSaveTime = Null
    /\ latestDataRef = LatestData(images, currentImageIndex, imageRatings,
                                  imageNotes, zipFileName)
    /\ autoSaveTimeoutRef = Null
    /\ timers = {}
    /\ sessions = 0
    /\ loading = <<>>
    /\ revokedURLs = EmptyObj
    /\ ratingsIssued = 0
    /\ events = 0
    /\ written = NothingWritten
    /\ burst = NoBurst
    /\ lastOp = NoCall("init")

Reorder(savedOrder) ==
    /\ lastOp' = ReorderCall(images, savedOrder,
                             reorderImagesFromSavedOrder(images, savedOrder))
    /\ UNCHANGED <<localStorage, now, liveVars, sessionId, appVars>>

ReorderNext == \E savedOrder \in SavedOrders : Reorder(savedOrder)

ReorderSpec == ReorderInit /\ [][ReorderNext]_vars

----------------------------------------------------------------------------
(* The zip files a user may pick, and what extraction makes of them *)

\* a File: its name and the image entries of the zip it holds, each by the
\* path of the entry and the size of its blob
File(name, entries) == [name |-> name, entries |-> entries]

\* The files the user may choose for a fresh start: a bundle of two images
\* and a zip without images.
Files ==
    { File("x.zip", {[path |-> "a.jpg", size |-> 10], [path |-> "b.jpg", size |-> 20]}),
      File("e.zip", {}) }

\* The files the user may supply to restore: those, and another bundle
\* named x.zip that holds a different image.
RestoreFiles ==
    Files \cup
    { File("x.zip", {[path |-> "a.jpg", size |-> 10], [path |-> "c.jpg", size |-> 30]}) }

ZipEntries(file) == file.entries

\* a.path.localeCompare(b.path) < 0, on the paths above
PathRank == ("a.jpg" :> 1) @@ ("b.jpg" :> 2) @@ ("c.jpg" :> 3)

\* every arrangement of the set S as a sequence
Orderings(S) ==
    {f \in [1..Cardinality(S) -> S] : \A i, j \in DOMAIN f : i # j => f[i] # f[j]}

\* extractImagesFromZip: the arrays it may resolve to.  Entries are sorted
\* by path, or shuffled (any arrangement); each gets an object URL that no
\* other call issues (call names the call).
extractImagesFromZip(file, shuffle, call) ==
    LET imgs == {[path |-> e.path, size |-> e.size,
                  url |-> "blob:" \o call \o "/" \o e.path] : e \in ZipEntries(file)}
    IN  IF shuffle
        THEN Orderings(imgs)
        ELSE {f \in Orderings(imgs) :
                \A i \in 1..(Len(f) - 1) : PathRank[f[i].path] < PathRank[f[i + 1].path]}

\* URL.revokeObjectURL(url), counted
revokeObjectURL(revoked, url) ==
    Put(revoked, url, IF Has(revoked, url) THEN revoked[url] + 1 ELSE 1)

\* cleanupImageUrls: every image's URL is revoked
RECURSIVE cleanupImageUrls(_, _)
cleanupImageUrls(revoked, imgs) ==
    IF imgs = <<>>
    THEN revoked
    ELSE cleanupImageUrls(revokeObjectURL(revoked, imgs[1].url), Tail(imgs))

----------------------------------------------------------------------------
(* What App derives from its state on every render *)

RECURSIVE SumValues(_)
SumValues(ratings) ==
    IF ratings = <<>> THEN 0 ELSE Head(ratings).value + SumValues(Tail(ratings))

\* calculateAverage as it would be if it cut the mean off after one decimal
calculateAverage_truncating(ratings) ==
    IF Len(ratings) = 0
    THEN 0
    ELSE (10 * SumValues(ratings)) \div Len(ratings)

\* calculateAverage, in tenths: Math.round((sum / length) * 10)
calculateAverage(ratings) ==
    IF Len(ratings) = 0
    THEN 0
    ELSE (20 * SumValues(ratings) + Len(ratings)) \div (2 * Len(ratings))

\* prev[path] || []
RatingsAt(ratings, path) == IF Has(ratings, path) THEN ratings[path] ELSE <<>>

filteredImages(imgs, ratings, minRating) ==
    IF minRating = 0
    THEN imgs
    ELSE SelectSeq(imgs, LAMBDA image :
             /\ Len(RatingsAt(ratings, image.path)) # 0
             /\ calculateAverage(RatingsAt(ratings, image.path)) >= 10 * minRating)

FilteredNow == filteredImages(images, imageRatings, minRatingFilter)

\* currentImage is defined
HasCurrentImage == currentImageIndex < Len(FilteredNow)

currentImage == FilteredNow[currentImageIndex + 1]

\* the fullscreen interface, with its rating controls, is on screen
Fullscreen == phase = "open" /\ Len(images) > 0 /\ Len(FilteredNow) > 0

\* The render reads currentImage.url whenever images and filteredImages are
\* not empty; with currentImageIndex past the end of filteredImages that
\* read throws and React unmounts the App.
RenderThrows(imgs, index, ratings, minRating) ==
    /\ Len(imgs) > 0
    /\ Len(filteredImages(imgs, ratings, minRating)) > 0
    /\ index >= Len(filteredImages(imgs, ratings, minRating))

\* scheduleAutoSave: [timers, ref].  id is the id setTimeout gives the
\* new timer.
scheduleAutoSave_dropsId(ts, ref, latest, t, id) ==
    IF Len(latest.images) = 0
    THEN [timers |-> ts, ref |-> ref]
    ELSE [timers |-> clearTimeout(ts, ref) \cup {Timer(id, t + AUTO_SAVE_DELAY)},
          ref |-> ref]

scheduleAutoSave(ts, ref, latest, t, id) ==
    IF Len(latest.images) = 0
    THEN [timers |-> ts, ref |-> ref]
    ELSE [timers |-> clearTimeout(ts, ref) \cup {Timer(id, t + AUTO_SAVE_DELAY)},
          ref |-> Some(id)]

\* The auto-save effect, run because one of its dependencies changed: the
\* cleanup of its previous run, then its body.
autoSaveEffect(ts, ref, imgs, latest, t, id) ==
    IF Len(imgs) > 0
    THEN scheduleAutoSave(clearTimeout(ts, ref), ref, latest, t, id)
    ELSE [timers |-> clearTimeout(ts, ref), ref |-> ref]

\* One render pass after a handler's state updates, with the effects it
\* commits.  replaced: the handler put a new object in imageRatings or
\* imageNotes.  When the render throws nothing is committed, the App is
\* unmounted and the cleanup of the auto-save effect clears the timer.
\* Otherwise latestDataRef is refreshed and, if a dependency of the
\* auto-save effect changed, the effect runs again.  State updates are
\* handled only while the clock can still run to the end of the quiet
\* period they start.
Render(imgs, index, ratings, notes, zip, minRating, replaced) ==
    LET rearm == replaced \/ index # currentImageIndex \/ Len(imgs) # Len(images)
        latest == LatestData(imgs, index, ratings, notes, zip)
        effect == autoSaveEffect(timers, autoSaveTimeoutRef, imgs, latest, now,
                                 events + 1)
    IN  /\ MayTick(now, AUTO_SAVE_DELAY)
        /\ IF RenderThrows(imgs, index, ratings, minRating)
           THEN /\ phase' = "crashed"
                /\ timers' = clearTimeout(timers, autoSaveTimeoutRef)
                /\ UNCHANGED <<liveVars, minRatingFilter, latestDataRef,
                               autoSaveTimeoutRef, burst>>
           ELSE /\ phase' = phase
                /\ images' = imgs
                /\ currentImageIndex' = index
                /\ imageRatings' = ratings
                /\ imageNotes' = notes
                /\ zipFileName' = zip
                /\ minRatingFilter' = minRating
                /\ latestDataRef' = latest
                /\ timers' = IF rearm THEN effect.timers ELSE timers
                /\ autoSaveTimeoutRef' = IF rearm THEN effect.ref
                                                  ELSE autoSaveTimeoutRef
                /\ burst' = IF rearm THEN BurstAt(now) ELSE burst

----------------------------------------------------------------------------
(* The results projection: generateRatingResults and its two call sites.   *)
(* Averages are in tenths, as calculateAverage above.                      *)

\* the characters String.prototype.trim removes, among those of the notes
WhiteSpace == {" ", "\n", "\t"}

RECURSIVE trimStart(_)
trimStart(s) ==
    IF Len(s) > 0 /\ SubSeq(s, 1, 1) \in WhiteSpace
    THEN trimStart(SubSeq(s, 2, Len(s)))
    ELSE s

RECURSIVE trimEnd(_)
trimEnd(s) ==
    IF Len(s) > 0 /\ SubSeq(s, Len(s), Len(s)) \in WhiteSpace
    THEN trimEnd(SubSeq(s, 1, Len(s) - 1))
    ELSE s

\* notes.trim()
trim(s) == trimEnd(trimStart(s))

\* ratings.map(rating => rating.value)
ratingValues(ratings) == [i \in 1..Len(ratings) |-> ratings[i].value]

\* the paths as they would be if those with no rating and no text were left out
allImagePaths_withContent(ratingsByPath, notesByPath) ==
    {path \in DOMAIN ratingsByPath : Len(ratingsByPath[path]) > 0}
    \cup {path \in DOMAIN notesByPath : trim(notesByPath[path]) # ""}

\* the paths as they would be if only the rated ones were listed
allImagePaths_ratedOnly(ratingsByPath, notesByPath) == DOMAIN ratingsByPath

\* new Set([...Object.keys(imageRatings), ...Object.keys(imageNotes)])
allImagePaths(ratingsByPath, notesByPath) == DOMAIN ratingsByPath \cup DOMAIN notesByPath

\* the entry as it would be if the notes were copied whenever there are any
resultEntry_untrimmed(notesByPath, imagePath, values, average) ==
    [ratings |-> values, average |-> average]
    @@ (IF Has(notesByPath, imagePath) /\ notesByPath[imagePath] # ""
        THEN [notes |-> notesByPath[imagePath]]
        ELSE EmptyObj)

\* results[imagePath]: ratings, average and, spread in when notes and
\* notes.trim() are truthy, the trimmed notes
resultEntry(notesByPath, imagePath, values, average) ==
    [ratings |-> values, average |-> average]
    @@ (IF /\ Has(notesByPath, imagePath)
           /\ notesByPath[imagePath] # ""
           /\ trim(notesByPath[imagePath]) # ""
        THEN [notes |-> trim(notesByPath[imagePath])]
        ELSE EmptyObj)

\* the calculateAverage that extractResultsFromProgress defines for itself
storedCalculateAverage(ratings) ==
    IF Len(ratings) = 0
    THEN 0
    ELSE (20 * SumValues(ratings) + Len(ratings)) \div (2 * Len(ratings))

\* a call of the function passed as calculateAverage, which is named by the
\* place that defines it: "App" or "extractResultsFromProgress"
callAverage(average, ratings) ==
    IF average = "App"
    THEN calculateAverage(ratings)
    ELSE storedCalculateAverage(ratings)

\* generateRatingResults, given the function that averages
generateRatingResults(ratingsByPath, notesByPath, average) ==
    [imagePath \in allImagePaths(ratingsByPath, notesByPath) |->
        resultEntry(notesByPath, imagePath,
                    ratingValues(RatingsAt(ratingsByPath, imagePath)),
                    callAverage(average, RatingsAt(ratingsByPath, imagePath)))]

\* extractResultsFromProgress as it would be if it left the notes out
extractResultsFromProgress_withoutNotes(ls, t) ==
    LET r == loadProgress(ls, t)
        progressData == r.ret.data
    IN  IF r.ret.isNull \/ ~Has(progressData, "imageRatings")
        THEN [storage |-> r.storage, ret |-> Null]
        ELSE [storage |-> r.storage,
              ret |-> Some(generateRatingResults(progressData.imageRatings, EmptyObj,
                                                 "extractResultsFromProgress"))]

\* extractResultsFromProgress at time t: [storage, ret], ret the results
\* or null
extractResultsFromProgress(ls, t) ==
    LET r == loadProgress(ls, t)
        progressData == r.ret.data
    IN  IF r.ret.isNull
        THEN [storage |-> r.storage, ret |-> Null]
        ELSE IF ~Has(progressData, "imageRatings")
        THEN \* Object.keys(undefined): TypeError, the catch block
             [storage |-> r.storage, ret |-> Null]
        ELSE [storage |-> r.storage,
              ret |-> Some(generateRatingResults(
                              progressData.imageRatings,
                              IF Has(progressData, "imageNotes")
                              THEN progressData.imageNotes ELSE EmptyObj,
                              "extractResultsFromProgress"))]

\* s.indexOf(pattern), counted from 1, from position i on; 0 when absent
RECURSIVE indexOfFrom(_, _, _)
indexOfFrom(s, pattern, i) ==
    IF i + Len(pattern) - 1 > Len(s) THEN 0
    ELSE IF SubSeq(s, i, i + Len(pattern) - 1) = pattern THEN i
    ELSE indexOfFrom(s, pattern, i + 1)

\* s.replace(pattern, replacement) with a string pattern: the first
\* occurrence only
replace(s, pattern, replacement) ==
    LET i == indexOfFrom(s, pattern, 1)
    IN  IF i = 0
        THEN s
        ELSE SubSeq(s, 1, i - 1) \o replacement \o SubSeq(s, i + Len(pattern), Len(s))

\* the name downloadResults gives the exported file
resultsFileName(zip) ==
    (IF zip # "" THEN replace(zip, ".zip", "") ELSE "image-ratings") \o "-results.json"

\* the name handleDownloadStoredResults gives it, from the storage summary
storedResultsFileName(info) ==
    (IF Has(info, "zipFileName") /\ info.zipFileName # ""
     THEN replace(info.zipFileName, ".zip", "")
     ELSE "image-ratings") \o "-results.json"

----------------------------------------------------------------------------
(* The store driven directly: any in-memory state, any stored item, the    *)
(* four store functions called in any order as time passes.                *)

StoreInit ==
    /\ localStorage \in InitialStorages
    /\ now = StartTime
    /\ images \in StoreImages
    /\ currentImageIndex \in {0, 1}
    /\ imageRatings \in StoreRatings
    /\ imageNotes \in StoreNotes
    /\ zipFileName = "x.zip"
    /\ sessionId = "s1"
    /\ phase = "closed"
    /\ error = Null
    /\ isRestoreMode = FALSE
    /\ shuffleImages = FALSE
    /\ stagedZipFile = Null
    /\ minRatingFilter = 0
    /\ storageInfo = NoStoredProgress
    /\ lastSaveTime = Null
    /\ latestDataRef = LatestData(images, currentImageIndex, imageRatings,
                                  imageNotes, zipFileName)
    /\ autoSaveTimeoutRef = Null
    /\ timers = {}
    /\ sessions = 0
    /\ loading = <<>>
    /\ revokedURLs = EmptyObj
    /\ ratingsIssued = 0
    /\ events = 0
    /\ written = NothingWritten
    /\ burst = NoBurst
    /\ lastOp = NoCall("init")

StoreSave(quotaOk) ==
    LET r == saveProgress(localStorage, now, sessionId, currentImageIndex,
                          imageRatings, imageNotes, images, zipFileName, quotaOk)
    IN  /\ localStorage' = r.storage
        /\ lastOp' = Op("", "saveProgress", quotaOk, r.raised, localStorage, r.storage,
                        EmptyObj, Follows(lastOp))
        /\ UNCHANGED <<now, liveVars, sessionId, appVars>>

StoreLoad ==
    LET r == loadProgress(localStorage, now)
    IN  /\ localStorage' = r.storage
        /\ lastOp' = Op("", "loadProgress", TRUE, FALSE, localStorage, r.storage, r.ret,
                        Follows(lastOp))
        /\ UNCHANGED <<now, liveVars, sessionId, appVars>>

StoreInfo ==
    LET r == getStorageInfo(localStorage, now)
    IN  /\ localStorage' = r.storage
        /\ lastOp' = Op("", "getStorageInfo", TRUE, FALSE, localStorage, r.storage, r.ret,
                        Follows(lastOp))
        /\ UNCHANGED <<now, liveVars, sessionId, appVars>>

StoreClear ==
    /\ localStorage' = clearProgress(localStorage)
    /\ lastOp' = Op("", "clearProgress", TRUE, FALSE, localStorage, localStorage',
                    EmptyObj, Follows(lastOp))
    /\ UNCHANGED <<now, liveVars, sessionId, appVars>>

StoreTick(d) ==
    /\ MayTick(now, d)
    /\ now' = now + d
    /\ lastOp' = NoCall("tick")
    /\ UNCHANGED <<localStorage, liveVars, sessionId, appVars>>

StoreNext ==
    \/ \E quotaOk \in BOOLEAN : StoreSave(quotaOk)
    \/ StoreLoad
    \/ StoreInfo
    \/ StoreClear
    \/ \E d \in TickSteps : StoreTick(d)

StoreSpec == StoreInit /\ [][StoreNext]_vars

----------------------------------------------------------------------------
(* The page: loading it, choosing a zip file, starting to rate *)

\* what the user may type or pick
RatingValues == {2, 5}
NoteTexts == {"", "hi"}
FilterValues == {0, 4}

\* the snapshot an earlier page left in the slot, if it left one
InitiallyWritten(ls) ==
    IF ls = STORAGE_KEY :> JSONstringify(OldSnapshot(StartTime - HalfDelay))
    THEN Written(OldSaveArgs(StartTime - HalfDelay))
    ELSE NothingWritten

\* written after a step that may have emptied the slot
WrittenAfter(ls) == IF SlotPresent(ls) THEN written ELSE NothingWritten

\* What the first page load may find in the slot: nothing, an item that is
\* not JSON, a snapshot without timestamp, and the snapshot of an earlier
\* session, which one long tick makes older than SESSION_TIMEOUT.
PageInitialStorages ==
    {EmptyObj} \cup
    {STORAGE_KEY :> item : item \in
        { JsonText("garbage", EmptyObj),
          JSONstringify(Remove(OldSnapshot(StartTime), "timestamp")),
          JSONstringify(OldSnapshot(StartTime - HalfDelay)) }}

Init ==
    /\ localStorage \in PageInitialStorages
    /\ now = StartTime
    /\ phase = "closed"
    /\ images = <<>>
    /\ currentImageIndex = 0
    /\ imageRatings = EmptyObj
    /\ imageNotes = EmptyObj
    /\ zipFileName = ""
    /\ error = Null
    /\ isRestoreMode = FALSE
    /\ shuffleImages = FALSE
    /\ stagedZipFile = Null
    /\ minRatingFilter = 0
    /\ sessionId = ""
    /\ storageInfo = NoStoredProgress
    /\ lastSaveTime = Null
    /\ latestDataRef = LatestData(<<>>, 0, EmptyObj, EmptyObj, "")
    /\ autoSaveTimeoutRef = Null
    /\ timers = {}
    /\ sessions = 0
    /\ loading = <<>>
    /\ revokedURLs = EmptyObj
    /\ ratingsIssued = 0
    /\ events = 0
    /\ written = InitiallyWritten(localStorage)
    /\ burst = NoBurst
    /\ lastOp = NoCall("init")

\* The page is loaded: App and useProgressManager take their initial state
\* and the mount effect asks the store what it holds.
Mount ==
    LET info == getStorageInfo(localStorage, now)
    IN  /\ phase = "closed"
        /\ sessions < MaxSessions
        /\ sessions' = sessions + 1
        /\ loading' = <<>>
        /\ revokedURLs' = EmptyObj
        /\ phase' = "open"
        /\ images' = <<>>
        /\ currentImageIndex' = 0
        /\ imageRatings' = EmptyObj
        /\ imageNotes' = EmptyObj
        /\ zipFileName' = ""
        /\ error' = Null
        /\ isRestoreMode' = FALSE
        /\ shuffleImages' = FALSE
        /\ stagedZipFile' = Null
        /\ minRatingFilter' = 0
        /\ sessionId' = "s" \o ToString(sessions + 1)
        /\ lastSaveTime' = Null
        /\ latestDataRef' = LatestData(<<>>, 0, EmptyObj, EmptyObj, "")
        /\ autoSaveTimeoutRef' = Null
        /\ timers' = {}
        /\ localStorage' = info.storage
        /\ storageInfo' = info.ret
        /\ written' = WrittenAfter(info.storage)
        /\ burst' = NoBurst
        /\ lastOp' = Op("Mount", "getStorageInfo", TRUE, FALSE, localStorage,
                        info.storage, info.ret, "")
        /\ UNCHANGED <<now, ratingsIssued, events>>

\* names the n-th extraction of a session in the object URLs it issues
Call(sid, n) == sid \o "." \o ToString(n)

\* a user input is handled by the mounted App
Input ==
    /\ phase = "open"
    /\ events < MaxEvents
    /\ events' = events + 1

setShuffleImages(checked) ==
    /\ Input
    /\ Len(images) = 0 /\ ~isRestoreMode
    /\ checked # shuffleImages
    /\ shuffleImages' = checked
    /\ lastOp' = NoCall("setShuffleImages")
    /\ UNCHANGED <<localStorage, now, phase, liveVars, error, isRestoreMode,
                   stagedZipFile, minRatingFilter, sessionId, hookVars, sessions, loading, revokedURLs,
                   ratingsIssued, historyVars>>

\* an operation recorded with the file it was given
OfFile(file, op) == op @@ [file |-> file]

\* The file input of the upload section, or the one of the actions menu of
\* the fullscreen interface: the file is staged, nothing is processed.
handleZipUpload(file) ==
    /\ Input
    /\ \/ Len(images) = 0 /\ ~isRestoreMode /\ stagedZipFile = Null
       \/ Fullscreen
    /\ stagedZipFile' = Some(file)
    /\ error' = Null
    /\ isRestoreMode' = FALSE
    /\ lastOp' = OfFile(file, NoCall("handleZipUpload"))
    /\ UNCHANGED <<localStorage, now, phase, liveVars, shuffleImages,
                   minRatingFilter, sessionId, hookVars, sessions, loading, revokedURLs, ratingsIssued,
                   historyVars>>

handleClearStagedFile ==
    /\ Input
    /\ Len(images) = 0 /\ ~isRestoreMode /\ stagedZipFile # Null
    /\ stagedZipFile' = Null
    /\ error' = Null
    /\ lastOp' = NoCall("handleClearStagedFile")
    /\ UNCHANGED <<localStorage, now, phase, liveVars, isRestoreMode, shuffleImages,
                   minRatingFilter, sessionId, hookVars, sessions, loading, revokedURLs, ratingsIssued,
                   historyVars>>

\* clearProgressData as it would be if it left the slot alone
clearProgressData_keepsSlot(ls) ==
    [storage |-> ls, storageInfo |-> NoStoredProgress, lastSaveTime |-> Null]

\* clearProgressData: [storage, storageInfo, lastSaveTime]
clearProgressData(ls) ==
    [storage |-> clearProgress(ls), storageInfo |-> NoStoredProgress,
     lastSaveTime |-> Null]

\* processZipFile as it would be if it cleared the stored progress of a
\* zip in which it found no image
noImagesFound_clearing(caller, file) ==
    /\ error' = Some("No images found in the zip file.")
    /\ localStorage' = clearProgress(localStorage)
    /\ written' = NothingWritten
    /\ lastOp' = OfFile(file, NoCall(caller))
    /\ UNCHANGED <<phase, liveVars, minRatingFilter, hookVars, burst>>

\* processZipFile when the extraction yields no image: the error is set
\* and the call returns
noImagesFound(caller, file) ==
    /\ error' = Some("No images found in the zip file.")
    /\ lastOp' = OfFile(file, NoCall(caller))
    /\ UNCHANGED <<localStorage, phase, liveVars, minRatingFilter, hookVars,
                   historyVars>>

\* handleStartRating: processZipFile(stagedZipFile, true).  The button is
\* on screen only while images is empty, so no timer is pending and no
\* rating control is on screen while the extraction is awaited; the state
\* updates that follow the await are applied together.
handleStartRating ==
    /\ Input
    /\ Len(images) = 0 /\ ~isRestoreMode /\ stagedZipFile # Null
    /\ \E extractedImages \in
            extractImagesFromZip(stagedZipFile.value, shuffleImages,
                                 Call(sessionId, events + 1)) :
         IF Len(extractedImages) = 0
         THEN noImagesFound("handleStartRating", stagedZipFile.value)
         ELSE LET cleared == clearProgressData(localStorage)
              IN  /\ error' = Null
                  /\ localStorage' = cleared.storage
                  /\ storageInfo' = cleared.storageInfo
                  /\ lastSaveTime' = cleared.lastSaveTime
                  /\ written' = NothingWritten
                  /\ Render(extractedImages, 0, EmptyObj, EmptyObj,
                            stagedZipFile.value.name, minRatingFilter, TRUE)
                  /\ lastOp' = OfFile(stagedZipFile.value,
                                      Op("handleStartRating", "clearProgress", TRUE,
                                         FALSE, localStorage, cleared.storage,
                                         EmptyObj, ""))
    /\ stagedZipFile' = Null
    /\ isRestoreMode' = FALSE
    /\ revokedURLs' = cleanupImageUrls(revokedURLs, images)
    /\ UNCHANGED <<now, shuffleImages, sessionId, sessions, loading, ratingsIssued>>

----------------------------------------------------------------------------
(* Rating, annotating and moving between images *)

\* ratings.map(rating => rating.id === ratingId ? {...rating, value} : rating)
MapValue(ratings, ratingId, newValue) ==
    [i \in DOMAIN ratings |->
        IF ratings[i].id = ratingId
        THEN [ratings[i] EXCEPT !.value = newValue]
        ELSE ratings[i]]

\* ratings.filter(rating => rating.id !== ratingId)
FilterOut(ratings, ratingId) == SelectSeq(ratings, LAMBDA rating : rating.id # ratingId)

\* the state update of editRating, applied to prev
editRatingUpdate(prev, path, ratingId, newValue) ==
    Put(prev, path,
        IF Has(prev, path) THEN MapValue(prev[path], ratingId, newValue) ELSE <<>>)

\* the update as it would be if it emptied the ratings of the path
deleteRatingUpdate_emptying(prev, path, ratingId) == Put(prev, path, <<>>)

\* the state update of deleteRating, applied to prev
deleteRatingUpdate(prev, path, ratingId) ==
    Put(prev, path, IF Has(prev, path) THEN FilterOut(prev[path], ratingId) ELSE <<>>)

\* what a rating handler leaves alone
RatingFrame ==
    UNCHANGED <<localStorage, now, error, isRestoreMode, shuffleImages, stagedZipFile,
                sessionId, storageInfo, lastSaveTime, sessions, loading, revokedURLs, written>>

addRating(rating) ==
    /\ Input
    /\ Fullscreen /\ HasCurrentImage
    /\ LET newRating == Rating("r" \o ToString(ratingsIssued + 1), rating, now)
           path == currentImage.path
       IN  Render(images, currentImageIndex,
                  Put(imageRatings, path, Append(RatingsAt(imageRatings, path), newRating)),
                  imageNotes, zipFileName, minRatingFilter, TRUE)
    /\ ratingsIssued' = ratingsIssued + 1
    /\ lastOp' = NoCall("addRating")
    /\ RatingFrame

editRating(ratingId, newValue) ==
    /\ Input
    /\ Fullscreen /\ HasCurrentImage
    /\ \E i \in DOMAIN RatingsAt(imageRatings, currentImage.path) :
            RatingsAt(imageRatings, currentImage.path)[i].id = ratingId
    /\ Render(images, currentImageIndex,
              editRatingUpdate(imageRatings, currentImage.path, ratingId, newValue),
              imageNotes, zipFileName, minRatingFilter, TRUE)
    /\ lastOp' = NoCall("editRating")
    /\ RatingFrame
    /\ UNCHANGED ratingsIssued

deleteRating(ratingId) ==
    /\ Input
    /\ Fullscreen /\ HasCurrentImage
    /\ \E i \in DOMAIN RatingsAt(imageRatings, currentImage.path) :
            RatingsAt(imageRatings, currentImage.path)[i].id = ratingId
    /\ Render(images, currentImageIndex,
              deleteRatingUpdate(imageRatings, currentImage.path, ratingId),
              imageNotes, zipFileName, minRatingFilter, TRUE)
    /\ lastOp' = NoCall("deleteRating")
    /\ RatingFrame
    /\ UNCHANGED ratingsIssued

\* the Delete and Backspace keys
deleteLastRating ==
    /\ Input
    /\ Fullscreen /\ HasCurrentImage
    /\ LET currentRatings == RatingsAt(imageRatings, currentImage.path)
       IN  IF Len(currentRatings) = 0
           THEN UNCHANGED <<phase, liveVars, minRatingFilter, latestDataRef,
                            autoSaveTimeoutRef, timers, burst>>
           ELSE Render(images, currentImageIndex,
                       deleteRatingUpdate(imageRatings, currentImage.path,
                                          currentRatings[Len(currentRatings)].id),
                       imageNotes, zipFileName, minRatingFilter, TRUE)
    /\ lastOp' = NoCall("deleteLastRating")
    /\ RatingFrame
    /\ UNCHANGED ratingsIssued

updateNotes(notes) ==
    /\ Input
    /\ Fullscreen /\ HasCurrentImage
    /\ notes # (IF Has(imageNotes, currentImage.path)
                THEN imageNotes[currentImage.path] ELSE "")
    /\ Render(images, currentImageIndex, imageRatings,
              Put(imageNotes, currentImage.path, notes), zipFileName,
              minRatingFilter, TRUE)
    /\ lastOp' = NoCall("updateNotes")
    /\ RatingFrame
    /\ UNCHANGED ratingsIssued

goToPrevious ==
    /\ Input
    /\ Fullscreen
    /\ Render(images,
              IF currentImageIndex > 0 THEN currentImageIndex - 1
                                       ELSE Len(FilteredNow) - 1,
              imageRatings, imageNotes, zipFileName, minRatingFilter, FALSE)
    /\ lastOp' = NoCall("goToPrevious")
    /\ RatingFrame
    /\ UNCHANGED ratingsIssued

goToNext ==
    /\ Input
    /\ Fullscreen
    /\ Render(images,
              IF currentImageIndex < Len(FilteredNow) - 1 THEN currentImageIndex + 1
                                                          ELSE 0,
              imageRatings, imageNotes, zipFileName, minRatingFilter, FALSE)
    /\ lastOp' = NoCall("goToNext")
    /\ RatingFrame
    /\ UNCHANGED ratingsIssued

\* the filter select of the settings modal and of the empty filtered view
setMinRatingFilter(minRating) ==
    /\ Input
    /\ Len(images) > 0
    /\ minRating # minRatingFilter
    /\ Render(images, currentImageIndex, imageRatings, imageNotes, zipFileName,
              minRating, FALSE)
    /\ lastOp' = NoCall("setMinRatingFilter")
    /\ RatingFrame
    /\ UNCHANGED ratingsIssued

----------------------------------------------------------------------------
(* Restoring: the recovery banner, the restore upload, processZipFile in   *)
(* restore mode.  processZipFile awaits the extraction: the handler that   *)
(* calls it is one step up to the await, and the rest of the call is a     *)
(* step of its own.  While a restore upload is awaited the drop zone stays *)
(* live (only the inputs and buttons are disabled by isLoading), so a      *)
(* second call can start before the first resumes.  While the Start button *)
(* awaits, no control that starts a call is on screen, which is why        *)
(* handleStartRating is a single step.                                     *)

\* isLoading, as far as the upload section shows it: a call is awaited.
\* (The first call that resumes installs images and the section is gone.)
isLoading == loading # <<>>

\* the recovery banner is on screen (showProgressRecovery)
showProgressRecovery ==
    storageInfo.hasStoredProgress /\ Len(images) = 0 /\ ~isRestoreMode

\* `${info.zipFileName}` in a message
ZipNameText(info) == IF Has(info, "zipFileName") THEN info.zipFileName ELSE "undefined"

RestorePrompt(info) ==
    "Please upload the zip file \"" \o ZipNameText(info) \o "\" to restore your progress"

WrongZipMessage(info) ==
    "Please upload the correct zip file: \"" \o ZipNameText(info) \o "\""

\* the test of the name as it would be if every name were accepted
NameDiffers_never(file, info) == FALSE

\* file.name !== storageInfo.zipFileName
NameDiffers(file, info) ==
    ~Has(info, "zipFileName") \/ file.name # info.zipFileName

handleRestoreProgress ==
    /\ Input
    /\ showProgressRecovery /\ ~isLoading
    /\ isRestoreMode' = TRUE
    /\ error' = Some(RestorePrompt(storageInfo))
    /\ lastOp' = NoCall("handleRestoreProgress")
    /\ UNCHANGED <<localStorage, now, phase, liveVars, shuffleImages, stagedZipFile,
                   minRatingFilter, sessionId, hookVars, sessions, loading,
                   revokedURLs, ratingsIssued, historyVars>>

\* the button "Back to Fresh Upload": setIsRestoreMode(false)
setIsRestoreMode(mode) ==
    /\ Input
    /\ Len(images) = 0 /\ isRestoreMode /\ ~isLoading
    /\ isRestoreMode' = mode
    /\ lastOp' = NoCall("setIsRestoreMode")
    /\ UNCHANGED <<localStorage, now, phase, liveVars, error, shuffleImages,
                   stagedZipFile, minRatingFilter, sessionId, hookVars, sessions,
                   loading, revokedURLs, ratingsIssued, historyVars>>

\* a zip file is dropped on the upload area outside restore mode: staged
handleDrop(file) ==
    /\ Input
    /\ Len(images) = 0 /\ ~isRestoreMode /\ stagedZipFile = Null
    /\ stagedZipFile' = Some(file)
    /\ error' = Null
    /\ isRestoreMode' = FALSE
    /\ lastOp' = NoCall("handleDrop")
    /\ UNCHANGED <<localStorage, now, phase, liveVars, shuffleImages,
                   minRatingFilter, sessionId, hookVars, sessions, loading,
                   revokedURLs, ratingsIssued, historyVars>>

\* extractResultsFromProgress reads the slot with loadProgress; with
\* nothing to export the handler sets an error, otherwise a file is
\* downloaded and the App's state is left alone
handleDownloadStoredResults ==
    LET r == loadProgress(localStorage, now)
        broken == ~r.ret.isNull /\ ~Has(r.ret.data, "imageRatings")
    IN  /\ Input
        /\ showProgressRecovery /\ ~isLoading
        /\ localStorage' = r.storage
        /\ written' = WrittenAfter(r.storage)
        /\ error' = IF r.ret.isNull \/ broken
                    THEN Some("No stored results found to download")
                    ELSE error
        /\ lastOp' = Op("handleDownloadStoredResults", "loadProgress", TRUE, FALSE,
                        localStorage, r.storage, r.ret, "")
        /\ UNCHANGED <<now, phase, liveVars, isRestoreMode, shuffleImages,
                       stagedZipFile, minRatingFilter, sessionId, hookVars, sessions,
                       loading, revokedURLs, ratingsIssued, burst>>

\* loadProgressData of the render whose images are imgs, at time t:
\* [storage, raised, ret].  The compatibility test is made only when that
\* render has images.
loadProgressData(ls, t, imgs) ==
    LET r == loadProgress(ls, t)
        progressData == r.ret.data
    IN  IF r.ret.isNull
        THEN [storage |-> r.storage, raised |-> FALSE, ret |-> Null]
        ELSE IF Len(imgs) > 0 /\ ~Has(progressData, "imageMetadata")
        THEN \* undefined.length: the promise is rejected with a TypeError
             [storage |-> r.storage, raised |-> TRUE, ret |-> Null]
        ELSE IF Len(imgs) > 0 /\ ~areImagesCompatible(progressData.imageMetadata, imgs)
        THEN [storage |-> r.storage, raised |-> FALSE, ret |-> Null]
        ELSE [storage |-> r.storage, raised |-> FALSE,
              ret |-> Some(Defined(progressData, {"imageRatings", "currentImageIndex",
                                                  "imageOrder"})
                           @@ [imageNotes |-> IF Has(progressData, "imageNotes")
                                              THEN progressData.imageNotes
                                              ELSE EmptyObj])]

\* a call of processZipFile(file, false) that awaits its extraction, with
\* what its closure holds: the images and storageInfo of the render that
\* made the call
Awaiting(file, imgs, info, call) ==
    [file |-> file, images |-> imgs, storageInfo |-> info, call |-> call]

\* processZipFile(file, false) up to its await
processZipFileStarts(caller, file) ==
    /\ error' = Null
    /\ revokedURLs' = cleanupImageUrls(revokedURLs, images)
    /\ loading' = Append(loading, Awaiting(file, images, storageInfo,
                                           Call(sessionId, events + 1)))
    /\ lastOp' = OfFile(file, NoCall(caller))
    /\ UNCHANGED <<localStorage, now, phase, liveVars, isRestoreMode, shuffleImages,
                   stagedZipFile, minRatingFilter, sessionId, hookVars, sessions,
                   ratingsIssued, historyVars>>

\* the handler found another name than the stored one
wrongZipFile(caller, file) ==
    /\ error' = Some(WrongZipMessage(storageInfo))
    /\ lastOp' = OfFile(file, NoCall(caller))
    /\ UNCHANGED <<localStorage, now, phase, liveVars, isRestoreMode, shuffleImages,
                   stagedZipFile, minRatingFilter, sessionId, hookVars, sessions,
                   loading, revokedURLs, ratingsIssued, historyVars>>

\* the file input of restore mode
handleRestoreZipUpload(file) ==
    /\ Input
    /\ Len(images) = 0 /\ isRestoreMode /\ ~isLoading
    /\ IF NameDiffers(file, storageInfo)
       THEN wrongZipFile("handleRestoreZipUpload", file)
       ELSE processZipFileStarts("handleRestoreZipUpload", file)

\* a zip file is dropped on the upload area in restore mode
handleRestoreDrop(file) ==
    /\ Input
    /\ Len(images) = 0 /\ isRestoreMode
    /\ Len(loading) < MaxLoading
    /\ IF NameDiffers(file, storageInfo)
       THEN wrongZipFile("handleRestoreDrop", file)
       ELSE processZipFileStarts("handleRestoreDrop", file)

\* loading without its i-th call
WithoutCall(calls, i) == SubSeq(calls, 1, i - 1) \o SubSeq(calls, i + 1, Len(calls))

\* the images as they would be installed without reordering them
finalImages_asExtracted(extractedImages, progressData) == extractedImages

\* the images processZipFile installs when it restores progressData
finalImages(extractedImages, progressData) ==
    IF Has(progressData, "imageOrder")
       /\ Len(progressData.imageOrder) = Len(extractedImages)
    THEN reorderImagesFromSavedOrder(extractedImages, progressData.imageOrder)
    ELSE extractedImages

\* processZipFile(file, false) from its await on, for the i-th awaited
\* call, followed by the setIsRestoreMode(false) of its handler.  The
\* state setters are stable, so a call whose render is long gone still
\* replaces the live state.  After a crash the App is unmounted and only
\* the store can change.
processZipFileResumes(i) ==
    LET c == loading[i]
        extracted == extractImagesFromZip(c.file, FALSE, c.call)
    IN  /\ phase \in {"open", "crashed"}
        /\ events < MaxEvents
        /\ events' = events + 1
        /\ loading' = WithoutCall(loading, i)
        /\ \E extractedImages \in extracted :
             IF Len(extractedImages) = 0
             THEN /\ noImagesFound("processZipFile", c.file)
                  /\ isRestoreMode' = FALSE
             ELSE LET loaded == loadProgressData(localStorage, now, c.images)
                      restores == /\ ~loaded.ret.isNull
                                  /\ ~NameDiffers(c.file, c.storageInfo)
                      progressData == loaded.ret.value
                  IN  /\ localStorage' = loaded.storage
                      /\ written' = WrittenAfter(loaded.storage)
                      /\ lastOp' = OfFile(c.file,
                                          Op("processZipFile", "loadProgress", TRUE,
                                             loaded.raised, localStorage,
                                             loaded.storage, loaded.ret, ""))
                      /\ IF phase = "crashed"
                         THEN UNCHANGED <<phase, liveVars, uiVars, hookVars, burst>>
                         ELSE IF loaded.raised
                         THEN /\ error' = Some("Cannot read properties of undefined (reading 'length')")
                              /\ isRestoreMode' = FALSE
                              /\ Render(images, currentImageIndex, imageRatings,
                                        imageNotes, c.file.name, minRatingFilter,
                                        FALSE)
                              /\ UNCHANGED <<storageInfo, lastSaveTime>>
                         ELSE /\ error' = error
                              /\ isRestoreMode' = FALSE
                              /\ UNCHANGED <<storageInfo, lastSaveTime>>
                              /\ IF restores
                                 THEN Render(finalImages(extractedImages, progressData),
                                             progressData.currentImageIndex,
                                             progressData.imageRatings,
                                             progressData.imageNotes,
                                             c.file.name, minRatingFilter, TRUE)
                                 ELSE Render(extractedImages, 0, EmptyObj, EmptyObj,
                                             c.file.name, minRatingFilter, TRUE)
        /\ UNCHANGED <<now, shuffleImages, stagedZipFile, sessionId, sessions,
                       revokedURLs, ratingsIssued>>

ExtractionEnds == \E i \in 1..Len(loading) : processZipFileResumes(i)

----------------------------------------------------------------------------
(* Saving: the debounce timer, the manual save, the unload handler *)

\* written after a save with these arguments, ls being the storage the
\* handler leaves
WrittenBy(args, quotaOk, ls) ==
    IF ~SlotPresent(ls) THEN NothingWritten
    ELSE IF quotaOk THEN Written(args)
    ELSE written

\* The callback of the timer armed by scheduleAutoSave: it saves what
\* latestDataRef holds, stamps lastSaveTime and refreshes storageInfo.
autoSaveCallback(timer, quotaOk) ==
    LET d == latestDataRef
        saved == saveProgress(localStorage, now, sessionId, d.currentImageIndex,
                              d.imageRatings, d.imageNotes, d.images, d.zipFileName,
                              quotaOk)
        info == getStorageInfo(saved.storage, now)
    IN  /\ phase = "open"
        /\ timer \in timers
        /\ now >= timer.due
        /\ localStorage' = info.storage
        /\ lastSaveTime' = Some(now)
        /\ storageInfo' = info.ret
        /\ timers' = timers \ {timer}
        /\ written' = WrittenBy(SaveArgs(sessionId, now, d.currentImageIndex,
                                         d.imageRatings, d.imageNotes, d.images,
                                         d.zipFileName), quotaOk, info.storage)
        /\ burst' = [burst EXCEPT !.debounced = IF @ < 2 THEN @ + 1 ELSE @]
        /\ lastOp' = Op("autoSaveCallback", "saveProgress", quotaOk, saved.raised,
                        localStorage, saved.storage, EmptyObj, "")
        /\ UNCHANGED <<now, phase, liveVars, uiVars, sessionId, latestDataRef,
                       autoSaveTimeoutRef, sessions, loading, revokedURLs, ratingsIssued, events>>

\* saveProgressData as it would be if it cleared the pending timer
saveProgressData_cancels(quotaOk) ==
    LET saved == saveProgress(localStorage, now, sessionId, currentImageIndex,
                              imageRatings, imageNotes, images, zipFileName, quotaOk)
        info == getStorageInfo(saved.storage, now)
    IN  /\ Input
        /\ Fullscreen
        /\ Len(images) # 0
        /\ localStorage' = info.storage
        /\ lastSaveTime' = Some(now)
        /\ storageInfo' = info.ret
        /\ written' = WrittenBy(SaveArgs(sessionId, now, currentImageIndex,
                                         imageRatings, imageNotes, images,
                                         zipFileName), quotaOk, info.storage)
        /\ burst' = [burst EXCEPT !.manual = @ \/ timers # {}]
        /\ lastOp' = Op("saveProgressData", "saveProgress", quotaOk, saved.raised,
                        localStorage, saved.storage, EmptyObj, "")
        /\ timers' = clearTimeout(timers, autoSaveTimeoutRef)
        /\ UNCHANGED <<now, phase, liveVars, uiVars, sessionId, latestDataRef,
                       autoSaveTimeoutRef, sessions, loading, revokedURLs, ratingsIssued>>

\* The save button of SaveStatus: it saves the values of the last render.
saveProgressData(quotaOk) ==
    LET saved == saveProgress(localStorage, now, sessionId, currentImageIndex,
                              imageRatings, imageNotes, images, zipFileName, quotaOk)
        info == getStorageInfo(saved.storage, now)
    IN  /\ Input
        /\ Fullscreen
        /\ Len(images) # 0
        /\ localStorage' = info.storage
        /\ lastSaveTime' = Some(now)
        /\ storageInfo' = info.ret
        /\ written' = WrittenBy(SaveArgs(sessionId, now, currentImageIndex,
                                         imageRatings, imageNotes, images,
                                         zipFileName), quotaOk, info.storage)
        /\ burst' = [burst EXCEPT !.manual = @ \/ timers # {}]
        /\ lastOp' = Op("saveProgressData", "saveProgress", quotaOk, saved.raised,
                        localStorage, saved.storage, EmptyObj, "")
        /\ UNCHANGED <<now, phase, liveVars, uiVars, sessionId, latestDataRef,
                       autoSaveTimeoutRef, timers, sessions, loading, revokedURLs, ratingsIssued>>

\* handleBeforeUnload as it would be if the listener were registered once,
\* on mount, and kept the values of the first render (no images)
handleBeforeUnload_firstRender(quotaOk) ==
    /\ phase = "open"
    /\ phase' = "closed"
    /\ timers' = {}
    /\ quotaOk
    /\ lastOp' = NoCall("handleBeforeUnload")
    /\ UNCHANGED <<localStorage, written, now, liveVars, uiVars, sessionId,
                   storageInfo, lastSaveTime, latestDataRef, autoSaveTimeoutRef,
                   sessions, loading, revokedURLs, ratingsIssued, events, burst>>

\* handleBeforeUnload as it would be without its test of images.length
handleBeforeUnload_unguarded(quotaOk) ==
    LET saved == saveProgress(localStorage, now, sessionId, currentImageIndex,
                              imageRatings, imageNotes, images, zipFileName, quotaOk)
    IN  /\ phase = "open"
        /\ phase' = "closed"
        /\ timers' = {}
        /\ localStorage' = saved.storage
        /\ written' = WrittenBy(SaveArgs(sessionId, now, currentImageIndex,
                                         imageRatings, imageNotes, images,
                                         zipFileName), quotaOk, saved.storage)
        /\ lastOp' = Op("handleBeforeUnload", "saveProgress", quotaOk,
                        saved.raised, localStorage, saved.storage, EmptyObj, "")
        /\ UNCHANGED <<now, liveVars, uiVars, sessionId, storageInfo, lastSaveTime,
                       latestDataRef, autoSaveTimeoutRef, sessions, loading, revokedURLs, ratingsIssued,
                       events, burst>>

\* The page is unloaded: the beforeunload listener saves the values of the
\* last render if there are images; the timer dies with the page.  With no
\* images no write is attempted and quotaOk plays no part.
handleBeforeUnload(quotaOk) ==
    LET saved == saveProgress(localStorage, now, sessionId, currentImageIndex,
                              imageRatings, imageNotes, images, zipFileName, quotaOk)
    IN  /\ phase = "open"
        /\ phase' = "closed"
        /\ timers' = {}
        /\ IF Len(images) > 0
           THEN /\ localStorage' = saved.storage
                /\ written' = WrittenBy(SaveArgs(sessionId, now, currentImageIndex,
                                                 imageRatings, imageNotes, images,
                                                 zipFileName), quotaOk, saved.storage)
                /\ lastOp' = Op("handleBeforeUnload", "saveProgress", quotaOk,
                                saved.raised, localStorage, saved.storage, EmptyObj, "")
           ELSE /\ quotaOk
                /\ lastOp' = NoCall("handleBeforeUnload")
                /\ UNCHANGED <<localStorage, written>>
        /\ UNCHANGED <<now, liveVars, uiVars, sessionId, storageInfo, lastSaveTime,
                       latestDataRef, autoSaveTimeoutRef, sessions, loading, revokedURLs, ratingsIssued,
                       events, burst>>

\* The page is left after a render has thrown: the unmount removed the
\* beforeunload listener, nothing is saved.
UnloadAfterCrash ==
    /\ phase = "crashed"
    /\ phase' = "closed"
    /\ lastOp' = NoCall("UnloadAfterCrash")
    /\ UNCHANGED <<localStorage, now, liveVars, uiVars, sessionId, hookVars, sessions, loading, revokedURLs,
                   ratingsIssued, events, historyVars>>

\* time passes
Tick(d) ==
    /\ MayTick(now, d)
    /\ now' = now + d
    /\ lastOp' = NoCall("Tick")
    /\ UNCHANGED <<localStorage, phase, liveVars, uiVars, sessionId, hookVars,
                   sessions, loading, revokedURLs, ratingsIssued, events, historyVars>>

UserInput ==
    \/ \E checked \in BOOLEAN : setShuffleImages(checked)
    \/ \E file \in Files : handleZipUpload(file)
    \/ handleClearStagedFile
    \/ handleStartRating
    \/ \E file \in Files : handleDrop(file)
    \/ handleRestoreProgress
    \/ setIsRestoreMode(FALSE)
    \/ handleDownloadStoredResults
    \/ \E file \in RestoreFiles : handleRestoreZipUpload(file)
    \/ \E file \in RestoreFiles : handleRestoreDrop(file)
    \/ \E rating \in RatingValues : addRating(rating)
    \/ \E n \in 1..MaxEvents, newValue \in RatingValues :
            editRating("r" \o ToString(n), newValue)
    \/ \E n \in 1..MaxEvents : deleteRating("r" \o ToString(n))
    \/ deleteLastRating
    \/ \E notes \in NoteTexts : updateNotes(notes)
    \/ goToPrevious
    \/ goToNext
    \/ \E minRating \in FilterValues : setMinRatingFilter(minRating)
    \/ \E quotaOk \in BOOLEAN : saveProgressData(quotaOk)

TimePasses == \E d \in TickSteps : Tick(d)

TimerFires == \E timer \in timers, quotaOk \in BOOLEAN : autoSaveCallback(timer, quotaOk)

Next ==
    \/ Mount
    \/ UserInput
    \/ TimerFires
    \/ ExtractionEnds
    \/ \E quotaOk \in BOOLEAN : handleBeforeUnload(quotaOk)
    \/ UnloadAfterCrash
    \/ TimePasses

Spec == Init /\ [][Next]_vars

\* The browser keeps its clock running and runs the callback of a timeout
\* that is due; nothing obliges the user to act.
FairSpec ==
    Spec /\ WF_vars(TimePasses) /\ WF_vars(TimerFires) /\ WF_vars(ExtractionEnds)

----------------------------------------------------------------------------
(* The compatibility test driven directly: the images of ReorderInit are   *)
(* compared with stored metadata of at most MaxLen entries, and with the   *)
(* metadata of a snapshot taken of the same images in another order.       *)

\* the entries stored metadata is made of: those of the four images at two
\* moments, and one of b.jpg with another size
MetadataEntries ==
    {[path |-> img.path, size |-> img.size, lastModified |-> t] :
        img \in {ImgA, ImgB, ImgC, ImgA2}, t \in {StartTime, StartTime + 1}}
    \cup {[path |-> "b.jpg", size |-> 21, lastModified |-> StartTime]}

StoredMetadatas == SeqsUpTo(MetadataEntries, MaxLen)

CompareCall(storedMetadata, imgs, ret) ==
    [caller |-> "", by |-> "areImagesCompatible", storedMetadata |-> storedMetadata,
     images |-> imgs, ret |-> ret]

\* the functions are pure: one call from each initial state shows all they do
FirstCall == lastOp.caller = "init"

Compare(storedMetadata) ==
    /\ FirstCall
    /\ lastOp' = CompareCall(storedMetadata, images,
                             areImagesCompatible(storedMetadata, images))
    /\ UNCHANGED <<localStorage, now, liveVars, sessionId, appVars>>

\* A snapshot was saved of the images in the order saved (saveProgress
\* writes imageMetadata and imageOrder from the same array); the images, as
\* extracted, are compared with its metadata before and after they are
\* reconciled with its imageOrder.
ReconcileCall(saved, imgs, reconciled, before, after) ==
    [caller |-> "", by |-> "reconcile", saved |-> saved, images |-> imgs,
     reconciled |-> reconciled, before |-> before, after |-> after]

Reconcile(saved) ==
    LET progressData == ProgressData(sessionId, now, 0, EmptyObj, EmptyObj, saved,
                                     zipFileName)
        reconciled == reorderImagesFromSavedOrder(images, progressData.imageOrder)
    IN  /\ FirstCall
        /\ lastOp' = ReconcileCall(saved, images, reconciled,
                                   areImagesCompatible(progressData.imageMetadata,
                                                       images),
                                   areImagesCompatible(progressData.imageMetadata,
                                                       reconciled))
        /\ UNCHANGED <<localStorage, now, liveVars, sessionId, appVars>>

CompatNext ==
    \/ \E storedMetadata \in StoredMetadatas : Compare(storedMetadata)
    \/ \E saved \in Orderings({images[i] : i \in DOMAIN images}) : Reconcile(saved)

CompatSpec == ReorderInit /\ [][CompatNext]_vars


----------------------------------------------------------------------------
(* The results projection driven directly: ratings and notes of two paths  *)
(* are projected as they are and after a save, and rating sequences of at  *)
(* most MaxRatings values are averaged by both functions that average.     *)

MaxRatings == 3

\* the ratings a path may have: none recorded, an emptied list, three values
ProjectRatings ==
    LET lists == {<<>>,
                  <<Rating("r1", 5, StartTime), Rating("r2", 4, StartTime),
                    Rating("r3", 4, StartTime)>>}
    IN  {EmptyObj} \cup {"a.jpg" :> l : l \in lists} \cup {"b.jpg" :> l : l \in lists}
        \cup {("a.jpg" :> la) @@ ("b.jpg" :> lb) : la \in lists, lb \in lists}

\* the notes a path may have: none, empty, blank, text inside white space
ProjectNotes ==
    LET texts == {"", " \n", " hi "}
    IN  {EmptyObj} \cup {"a.jpg" :> s : s \in texts} \cup {"b.jpg" :> s : s \in texts}
        \cup {("a.jpg" :> sa) @@ ("b.jpg" :> sb) : sa \in texts, sb \in texts}

\* the names a collection may have: none, and names a drop accepts (they end
\* in .zip whatever the case of the letters)
ProjectNames == {"", "x.zip", "my.zip.files.zip", "X.ZIP"}

ProjectorInit ==
    /\ images = <<>>
    /\ localStorage = EmptyObj
    /\ now = StartTime
    /\ currentImageIndex = 0
    /\ imageRatings \in ProjectRatings
    /\ imageNotes \in ProjectNotes
    /\ zipFileName \in ProjectNames
    /\ sessionId = "s1"
    /\ phase = "closed"
    /\ error = Null
    /\ isRestoreMode = FALSE
    /\ shuffleImages = FALSE
    /\ stagedZipFile = Null
    /\ minRatingFilter = 0
    /\ storageInfo = NoStoredProgress
    /\ lastSaveTime = Null
    /\ latestDataRef = LatestData(images, currentImageIndex, imageRatings,
                                  imageNotes, zipFileName)
    /\ autoSaveTimeoutRef = Null
    /\ timers = {}
    /\ sessions = 0
    /\ loading = <<>>
    /\ revokedURLs = EmptyObj
    /\ ratingsIssued = 0
    /\ events = 0
    /\ written = NothingWritten
    /\ burst = NoBurst
    /\ lastOp = NoCall("init")

\* downloadResults: generateRatingResults on the live ratings and notes with
\* the App's calculateAverage
Generate ==
    /\ FirstCall
    /\ lastOp' = [caller |-> "downloadResults", by |-> "generateRatingResults",
                  ret |-> generateRatingResults(imageRatings, imageNotes, "App"),
                  fileName |-> resultsFileName(zipFileName)]
    /\ UNCHANGED <<localStorage, now, liveVars, sessionId, appVars>>

\* a save of the live state that the store accepts
ProjectorSave ==
    LET r == saveProgress(localStorage, now, sessionId, currentImageIndex,
                          imageRatings, imageNotes, images, zipFileName, TRUE)
    IN  /\ FirstCall
        /\ localStorage' = r.storage
        /\ lastOp' = Op("", "saveProgress", TRUE, r.raised, localStorage, r.storage,
                        EmptyObj, "")
        /\ UNCHANGED <<now, liveVars, sessionId, appVars>>

\* extractResultsFromProgress on what was saved, next to the live export
Extract ==
    LET r == extractResultsFromProgress(localStorage, now)
    IN  /\ lastOp.by = "saveProgress"
        /\ localStorage' = r.storage
        /\ lastOp' = [caller |-> "", by |-> "extractResultsFromProgress",
                      live |-> generateRatingResults(imageRatings, imageNotes, "App"),
                      ret |-> r.ret,
                      fileName |-> storedResultsFileName(
                                       getStorageInfo(r.storage, now).ret)]
        /\ UNCHANGED <<now, liveVars, sessionId, appVars>>

RatingLists ==
    UNION {[1..n -> {Rating("r", v, StartTime) : v \in 1..5}] : n \in 0..MaxRatings}

\* both averaging functions on one rating sequence
Average(ratings) ==
    /\ FirstCall
    /\ lastOp' = [caller |-> "", by |-> "calculateAverage", ratings |-> ratings,
                  ret |-> calculateAverage(ratings),
                  stored |-> storedCalculateAverage(ratings)]
    /\ UNCHANGED <<localStorage, now, liveVars, sessionId, appVars>>

ProjectorNext ==
    \/ Generate
    \/ ProjectorSave
    \/ Extract
    \/ \E ratings \in RatingLists : Average(ratings)

ProjectorSpec == ProjectorInit /\ [][ProjectorNext]_vars
----------------------------------------------------------------------------
(* What the claims say of a stored item *)

\* ls holds a snapshot written more than SESSION_TIMEOUT before t
StoredExpired(ls, t) ==
    /\ SlotPresent(ls)
    /\ WellFormed(ls[STORAGE_KEY])
    /\ ls[STORAGE_KEY].obj.timestamp + SESSION_TIMEOUT < t

\* ls holds an item that is not a snapshot (the empty string, which getItem
\* returns as a falsy value, counts as nothing stored)
StoredMalformed(ls) ==
    /\ SlotPresent(ls)
    /\ ls[STORAGE_KEY].kind # "empty"
    /\ ~WellFormed(ls[STORAGE_KEY])

\* the call recorded in op reported no stored progress
ReportedAbsent(op) ==
    IF op.by = "getStorageInfo" THEN ~op.ret.hasStoredProgress ELSE op.ret.isNull

----------------------------------------------------------------------------
(* C1..C3: the store's contract, under StoreSpec *)

\* C1 (round trip): when loadProgress runs right after a saveProgress whose
\* write was accepted, with no time passing in between, it returns a
\* snapshot whose imageOrder, imageRatings, imageNotes, currentImageIndex
\* and zipFileName are the values that were passed to the save.
C1_RoundTrip ==
    (lastOp.by = "loadProgress" /\ lastOp.follows = "saved") =>
        /\ ~lastOp.ret.isNull
        /\ DOMAIN lastOp.ret.data = SnapshotKeys
        /\ lastOp.ret.data.imageOrder = PathsOf(images)
        /\ lastOp.ret.data.imageRatings = imageRatings
        /\ lastOp.ret.data.imageNotes = imageNotes
        /\ lastOp.ret.data.currentImageIndex = currentImageIndex
        /\ lastOp.ret.data.zipFileName = zipFileName

C1_Witness ==
    /\ lastOp.by = "loadProgress"
    /\ lastOp.follows = "saved"
    /\ ~lastOp.ret.isNull
    /\ Len(images) = 2
    /\ currentImageIndex = 1
    /\ DOMAIN imageRatings = {"b.jpg", "z.png"}
    /\ DOMAIN imageNotes = {"a.jpg", "z.png"}

\* C2 (expiry): when loadProgress or getStorageInfo is called on a slot
\* holding a snapshot whose timestamp is more than SESSION_TIMEOUT in the
\* past, the call reports no stored progress and the slot is empty afterwards.
C2_Expiry ==
    (lastOp.by \in {"loadProgress", "getStorageInfo"} /\ StoredExpired(lastOp.pre, now)) =>
        /\ ReportedAbsent(lastOp)
        /\ ~SlotPresent(localStorage)

\* loadProgress met a snapshot exactly 7 days and 1 second old
C2_Witness ==
    /\ lastOp.by = "loadProgress"
    /\ StoredExpired(lastOp.pre, now)
    /\ lastOp.pre[STORAGE_KEY].obj.timestamp = now - (SESSION_TIMEOUT + HalfDelay)
    /\ lastOp.pre[STORAGE_KEY].obj.sessionId = "s1"

\* C3 (corruption self-healing), as the claim states it: when loadProgress
\* is called on a slot holding an item that is not a well-formed snapshot
\* (not JSON, or JSON lacking a property of a snapshot), it returns null and
\* the slot is empty afterwards.
C3_CorruptionSelfHealing ==
    (lastOp.by = "loadProgress" /\ StoredMalformed(lastOp.pre)) =>
        /\ lastOp.ret.isNull
        /\ ~SlotPresent(localStorage)

----------------------------------------------------------------------------
(* C4..C10: saving from the page, under Spec *)

\* the step just taken called saveProgress and localStorage refused the write
FailedSave(op) == op.by = "saveProgress" /\ ~op.quotaOk

\* C4 (failed write): in every step in which saveProgress is called and the
\* storage write fails, saveProgress does not raise to its caller, images,
\* currentImageIndex, imageRatings, imageNotes and zipFileName are what
\* they were before the step, and localStorage after the call is what it
\* was before it.
C4_FailedWrite ==
    [][FailedSave(lastOp') =>
          /\ ~lastOp'.raised
          /\ liveVars' = liveVars
          /\ lastOp'.pre = localStorage
          /\ lastOp'.post = lastOp'.pre]_vars

\* a debounced save was refused while the slot held a snapshot and the
\* user had rated
C4_Witness ==
    /\ FailedSave(lastOp)
    /\ lastOp.caller = "autoSaveCallback"
    /\ SlotPresent(lastOp.pre)
    /\ lastOp.post = lastOp.pre
    /\ Len(images) = 2
    /\ imageRatings # EmptyObj

\* obj is the snapshot that a save with the arguments args writes
IsSnapshotOf(obj, args) ==
    /\ DOMAIN obj = SnapshotKeys
    /\ obj.sessionId = args.sessionId
    /\ obj.timestamp = args.at
    /\ obj.currentImageIndex = args.currentImageIndex
    /\ obj.imageRatings = args.imageRatings
    /\ obj.imageNotes = args.imageNotes
    /\ obj.zipFileName = args.zipFileName
    /\ Len(obj.imageOrder) = Len(args.images)
    /\ Len(obj.imageMetadata) = Len(args.images)
    /\ \A i \in DOMAIN args.images :
            /\ obj.imageOrder[i] = args.images[i].path
            /\ obj.imageMetadata[i].path = args.images[i].path
            /\ obj.imageMetadata[i].size = args.images[i].size

\* C5 (single slot, last writer wins): localStorage holds nothing under any
\* key but STORAGE_KEY, and whenever it holds a well-formed snapshot that is
\* not older than SESSION_TIMEOUT, that snapshot is the one written by the
\* latest save that localStorage accepted, and the slot has not been
\* emptied since that save.
C5_LastWriterWins ==
    /\ DOMAIN localStorage \subseteq {STORAGE_KEY}
    /\ (/\ SlotPresent(localStorage)
        /\ WellFormed(localStorage[STORAGE_KEY])
        /\ ~StoredExpired(localStorage, now)) =>
            /\ written.some
            /\ IsSnapshotOf(localStorage[STORAGE_KEY].obj, written.data)

\* an unload save has just replaced an older snapshot of other ratings
C5_Witness ==
    /\ lastOp.by = "saveProgress"
    /\ lastOp.caller = "handleBeforeUnload"
    /\ lastOp.quotaOk
    /\ SlotPresent(lastOp.pre)
    /\ WellFormed(lastOp.pre[STORAGE_KEY])
    /\ lastOp.pre[STORAGE_KEY].obj.timestamp < now
    /\ lastOp.pre[STORAGE_KEY].obj.imageRatings # imageRatings
    /\ SlotPresent(localStorage)
    /\ localStorage[STORAGE_KEY].obj.imageRatings = imageRatings
    /\ written.some
    /\ written.data.at = now

\* the arguments a save of the live state makes at this moment
LiveArgs ==
    SaveArgs(sessionId, now, currentImageIndex, imageRatings, imageNotes, images,
             zipFileName)

\* the slot holds the snapshot of the live state, written at this moment
SlotHoldsLive ==
    /\ SlotPresent(localStorage)
    /\ localStorage[STORAGE_KEY].kind = "object"
    /\ IsSnapshotOf(localStorage[STORAGE_KEY].obj, LiveArgs)

\* the page is open on a collection that is being rated
CollectionOpen == phase = "open" /\ Len(images) > 0

\* C6 (debounce coalescing): while the page is open on a non-empty
\* collection, the mutations made so far, however many and however close,
\* are followed by exactly one debounced write: until it happens exactly
\* one timer is armed, due AUTO_SAVE_DELAY after the last mutation; it
\* happens no earlier than that; once it has happened no timer is armed;
\* and what it writes is the live state as the last mutation left it.
C6_DebounceCoalescing ==
    /\ CollectionOpen =>
          /\ burst.debounced <= 1
          /\ burst.debounced = 0 =>
                \E timer \in timers :
                    /\ timers = {timer}
                    /\ timer.due = burst.at + AUTO_SAVE_DELAY
          /\ burst.debounced = 1 => timers = {}
    /\ lastOp.caller = "autoSaveCallback" =>
          /\ lastOp.by = "saveProgress"
          /\ now >= burst.at + AUTO_SAVE_DELAY
          /\ lastOp.quotaOk => SlotHoldsLive

\* three mutations, the second and third within the quiet period of the one
\* before, have been followed by one debounced write, three seconds after
\* the first
C6_Witness ==
    /\ lastOp.caller = "autoSaveCallback"
    /\ lastOp.quotaOk
    /\ burst.debounced = 1
    /\ now = burst.at + AUTO_SAVE_DELAY
    /\ \E path \in DOMAIN imageRatings :
            /\ Len(imageRatings[path]) = 1
            /\ imageRatings[path][1].timestamp = now - AUTO_SAVE_DELAY - HalfDelay
    /\ currentImageIndex = 1
    /\ lastSaveTime = Some(now)

\* the step just taken was a debounced, manual or unload save
SaveFired(op) ==
    /\ op.by = "saveProgress"
    /\ op.caller \in {"autoSaveCallback", "saveProgressData", "handleBeforeUnload"}

\* C7 (no stale write): while a collection is being rated latestDataRef
\* holds the live images, index, ratings, notes and collection name; and
\* the snapshot that an accepted debounced, manual or unload save leaves in
\* the slot is that of the live state at the moment the save fires.
C7_NoStaleWrite ==
    /\ CollectionOpen =>
          /\ latestDataRef.images = images
          /\ latestDataRef.currentImageIndex = currentImageIndex
          /\ latestDataRef.imageRatings = imageRatings
          /\ latestDataRef.imageNotes = imageNotes
          /\ latestDataRef.zipFileName = zipFileName
    /\ (SaveFired(lastOp) /\ lastOp.quotaOk) =>
          /\ SlotPresent(lastOp.post)
          /\ lastOp.post[STORAGE_KEY].kind = "object"
          /\ IsSnapshotOf(lastOp.post[STORAGE_KEY].obj, LiveArgs)

\* a debounced save armed by a rating has fired after the user moved to the
\* second image and noted something there
C7_Witness ==
    /\ SaveFired(lastOp)
    /\ lastOp.caller = "autoSaveCallback"
    /\ lastOp.quotaOk
    /\ currentImageIndex = 1
    /\ imageRatings # EmptyObj
    /\ imageNotes # EmptyObj
    /\ lastOp.post[STORAGE_KEY].obj.currentImageIndex = 1

\* C8 as the claim states it: a debounced write never fires after a manual
\* save that was made, with no mutation since, while its timer was pending.
C8_ManualSaveCancels ==
    lastOp.caller = "autoSaveCallback" => ~burst.manual

\* C8, amended: a manual save leaves the pending timer armed, due
\* AUTO_SAVE_DELAY after the last mutation; when the timer fires after the
\* manual save it performs a second write, of the live state of that moment.
C8_ManualSaveKeepsTimer ==
    /\ (CollectionOpen /\ burst.manual /\ burst.debounced = 0) =>
          \E timer \in timers : timer.due = burst.at + AUTO_SAVE_DELAY
    /\ (lastOp.caller = "autoSaveCallback" /\ burst.manual) =>
          /\ lastOp.by = "saveProgress"
          /\ lastOp.quotaOk => SlotHoldsLive

\* the timer has fired on top of the snapshot that a manual save of the
\* same ratings left earlier
C8_Witness ==
    /\ lastOp.caller = "autoSaveCallback"
    /\ burst.manual
    /\ lastOp.quotaOk
    /\ SlotPresent(lastOp.pre)
    /\ WellFormed(lastOp.pre[STORAGE_KEY])
    /\ lastOp.pre[STORAGE_KEY].obj.sessionId = sessionId
    /\ lastOp.pre[STORAGE_KEY].obj.timestamp < now
    /\ lastOp.pre[STORAGE_KEY].obj.imageRatings = imageRatings
    /\ imageRatings # EmptyObj
    /\ SlotHoldsLive

\* the slot holds a snapshot of the live state, whenever it was written
SlotMatchesLive ==
    /\ SlotPresent(localStorage)
    /\ WellFormed(localStorage[STORAGE_KEY])
    /\ localStorage[STORAGE_KEY].obj.imageOrder = PathsOf(images)
    /\ localStorage[STORAGE_KEY].obj.currentImageIndex = currentImageIndex
    /\ localStorage[STORAGE_KEY].obj.imageRatings = imageRatings
    /\ localStorage[STORAGE_KEY].obj.imageNotes = imageNotes
    /\ localStorage[STORAGE_KEY].obj.zipFileName = zipFileName

\* a mutation of the live state of a non-empty collection has been
\* committed and no debounced save has followed it yet
MutationPending == Len(images) > 0 /\ phase # "closed" /\ burst.debounced = 0

\* C9 (eventual durability), as the claim states it: once a mutation of a
\* non-empty collection is pending, eventually, in the same session, the
\* slot holds a snapshot of the live state and lastSaveTime is set, unless
\* localStorage refuses a write or the page is unloaded first (a further
\* mutation starts the wait again).
C9_EventualDurability ==
    \A s \in 1..MaxSessions :
        (MutationPending /\ sessions = s) ~>
            (/\ sessions = s
             /\ \/ SlotMatchesLive /\ ~lastSaveTime.isNull
                \/ FailedSave(lastOp)
                \/ lastOp.caller = "handleBeforeUnload")

\* C10 (unload flush): when the beforeunload listener runs with a non-empty
\* collection it calls saveProgress, whether or not a debounced save has
\* happened since the last mutation, and if the write is accepted the slot
\* holds the snapshot of the live state of that moment.
C10_UnloadFlush ==
    (lastOp.caller = "handleBeforeUnload" /\ Len(images) > 0) =>
        /\ lastOp.by = "saveProgress"
        /\ lastOp.quotaOk => SlotHoldsLive

\* the page was unloaded one second after a rating, before the timer was due
C10_Witness ==
    /\ lastOp.caller = "handleBeforeUnload"
    /\ lastOp.by = "saveProgress"
    /\ lastOp.quotaOk
    /\ burst.debounced = 0
    /\ now = burst.at + HalfDelay
    /\ \E path \in DOMAIN imageRatings :
            /\ Len(imageRatings[path]) > 0
            /\ imageRatings[path][Len(imageRatings[path])].timestamp = burst.at
    /\ SlotHoldsLive

----------------------------------------------------------------------------
(* C11..C20: empty collections, restoring, reconciling the order *)

\* C11 (empty collection): while images is empty no timer is armed; every
\* debounced, manual or unload save is made with at least one image; and
\* the snapshot of the latest accepted save lists at least one image.
C11_EmptyCollectionNoOp ==
    /\ Len(images) = 0 => timers = {}
    /\ SaveFired(lastOp) => Len(images) > 0
    /\ written.some => Len(written.data.images) > 0
    /\ (lastOp.caller = "handleBeforeUnload" /\ Len(images) = 0) =>
          /\ lastOp.by = "none"
          /\ written.some => /\ SlotPresent(localStorage)
                              /\ IsSnapshotOf(localStorage[STORAGE_KEY].obj,
                                              written.data)

\* the page was unloaded before any image was loaded, over a stored snapshot
C11_Witness ==
    /\ lastOp.caller = "handleBeforeUnload"
    /\ lastOp.by = "none"
    /\ Len(images) = 0
    /\ stagedZipFile # Null
    /\ SlotPresent(localStorage)
    /\ WellFormed(localStorage[STORAGE_KEY])

\* the snapshot in the slot of ls
Stored(ls) == ls[STORAGE_KEY].obj

\* ls holds a snapshot that has not expired at t
StoredLive(ls, t) ==
    /\ SlotPresent(ls)
    /\ WellFormed(ls[STORAGE_KEY])
    /\ ~StoredExpired(ls, t)

\* the file is the bundle the snapshot was taken of: same name, same paths
SameBundle(file, obj) ==
    /\ file.name = obj.zipFileName
    /\ Len(obj.imageOrder) = Cardinality(file.entries)
    /\ {e.path : e \in file.entries} = {obj.imageOrder[i] : i \in DOMAIN obj.imageOrder}

\* the step resumes a call of processZipFile made in restore mode, on a
\* page that is still in restore mode
RestoreResumes(op) == op.caller = "processZipFile" /\ phase = "open" /\ isRestoreMode

\* C12 (ordering fidelity): when a call of processZipFile resumes in
\* restore mode with the bundle of an unexpired snapshot of at least one
\* image, the paths of the images it installs are the snapshot's
\* imageOrder, and the ratings, notes and index it installs are the
\* snapshot's.
C12_OrderingFidelity ==
    [][(/\ RestoreResumes(lastOp')
        /\ StoredLive(localStorage, now)
        /\ Len(Stored(localStorage).imageOrder) > 0
        /\ SameBundle(lastOp'.file, Stored(localStorage)))
       => /\ phase' = "open"
          /\ PathsOf(images') = Stored(localStorage).imageOrder
          /\ imageRatings' = Stored(localStorage).imageRatings
          /\ imageNotes' = Stored(localStorage).imageNotes
          /\ currentImageIndex' = Stored(localStorage).currentImageIndex]_vars

\* a snapshot taken with b.jpg before a.jpg, the second image current, has
\* been restored from the bundle, whose extraction puts a.jpg first
C12_Witness ==
    /\ lastOp.caller = "processZipFile"
    /\ StoredLive(lastOp.pre, now)
    /\ SameBundle(lastOp.file, Stored(lastOp.pre))
    /\ Stored(lastOp.pre).imageOrder = <<"b.jpg", "a.jpg">>
    /\ PathsOf(images) = <<"b.jpg", "a.jpg">>
    /\ currentImageIndex = 1
    /\ imageRatings # EmptyObj
    /\ imageRatings = Stored(lastOp.pre).imageRatings
    /\ imageNotes = Stored(lastOp.pre).imageNotes

\* C13 (compatibility gate): when a call of processZipFile resumes in
\* restore mode and installs the ratings of a stored snapshot that has
\* ratings, the images it installs match the snapshot's imageMetadata:
\* same length, same path and size at every position.
C13_CompatibilityGate ==
    [][(/\ RestoreResumes(lastOp')
        /\ StoredLive(localStorage, now)
        /\ Stored(localStorage).imageRatings # EmptyObj
        /\ phase' = "open"
        /\ Len(images') > 0
        /\ imageRatings' = Stored(localStorage).imageRatings)
       => /\ Len(Stored(localStorage).imageMetadata) = Len(images')
          /\ \A i \in DOMAIN images' :
                /\ Stored(localStorage).imageMetadata[i].path = images'[i].path
                /\ Stored(localStorage).imageMetadata[i].size = images'[i].size]_vars

\* the message that names the bundle the snapshot obj was taken of
ExpectedBundleMessage(obj) ==
    "Please upload the correct zip file: \"" \o obj.zipFileName \o "\""

\* the step handled a file supplied in restore mode
RestoreSupplied(op) == op.caller \in {"handleRestoreZipUpload", "handleRestoreDrop"}

\* C14 (collection mismatch): when a file whose name differs from the
\* stored snapshot's zipFileName is supplied in restore mode, the error
\* names the expected bundle, no call of processZipFile is started, and the
\* slot, images, ratings, notes, index and collection name are unchanged.
C14_NameMismatch ==
    [][(/\ RestoreSupplied(lastOp')
        /\ StoredLive(localStorage, now)
        /\ lastOp'.file.name # Stored(localStorage).zipFileName)
       => /\ error' = Some(ExpectedBundleMessage(Stored(localStorage)))
          /\ loading' = loading
          /\ localStorage' = localStorage
          /\ liveVars' = liveVars
          /\ isRestoreMode']_vars

\* e.zip was dropped in restore mode over a snapshot of x.zip
C14_Witness ==
    /\ lastOp.caller = "handleRestoreDrop"
    /\ lastOp.file.name = "e.zip"
    /\ StoredLive(localStorage, now)
    /\ Stored(localStorage).zipFileName = "x.zip"
    /\ error = Some("Please upload the correct zip file: \"x.zip\"")
    /\ isRestoreMode
    /\ Len(images) = 0
    /\ loading = <<>>

\* the step was a fresh load that found images
FreshLoad(op) == op.caller = "handleStartRating" /\ op.by = "clearProgress"

\* C15 (fresh-load lifecycle): a fresh load that finds images leaves the
\* slot empty, the ratings and notes empty and the index 0; and the slot
\* goes from present to absent only in a fresh load or in a step that reads
\* the store (getStorageInfo or loadProgress, on their own or after a save)
\* and finds the item expired or malformed.
C15_FreshLoadLifecycle ==
    [][/\ FreshLoad(lastOp') =>
            /\ Cardinality(lastOp'.file.entries) > 0
            /\ ~SlotPresent(localStorage')
            /\ phase' = "open"
            /\ Len(images') = Cardinality(lastOp'.file.entries)
            /\ imageRatings' = EmptyObj
            /\ imageNotes' = EmptyObj
            /\ currentImageIndex' = 0
       /\ (SlotPresent(localStorage) /\ ~SlotPresent(localStorage')) =>
            \/ FreshLoad(lastOp')
            \/ /\ \/ lastOp'.by \in {"getStorageInfo", "loadProgress"}
                  \/ lastOp'.caller \in {"autoSaveCallback", "saveProgressData"}
               /\ StoredExpired(localStorage, now) \/ StoredMalformed(localStorage)]_vars

\* a fresh load of two images has emptied a slot that held a snapshot
C15_Witness ==
    /\ FreshLoad(lastOp)
    /\ SlotPresent(lastOp.pre)
    /\ WellFormed(lastOp.pre[STORAGE_KEY])
    /\ ~SlotPresent(localStorage)
    /\ Len(images) = 2
    /\ imageRatings = EmptyObj
    /\ currentImageIndex = 0

\* the object URLs of the images
URLsOf(imgs) == {imgs[i].url : i \in DOMAIN imgs}

\* the step ended a call of processZipFile on a zip without images
EmptyBundle(op) ==
    /\ op.caller \in {"handleStartRating", "processZipFile"}
    /\ op.file.entries = {}

\* C16 (empty bundle): when the extraction yields no image the error is
\* set, and images, ratings, notes, index, collection name, the slot and
\* the revoked object URLs are what they were before.
C16_EmptyBundle ==
    [][EmptyBundle(lastOp') =>
          /\ error' = Some("No images found in the zip file.")
          /\ liveVars' = liveVars
          /\ localStorage' = localStorage
          /\ revokedURLs' = revokedURLs
          /\ \A url \in URLsOf(images') : ~Has(revokedURLs', url)]_vars

\* Start was pressed on e.zip while the slot held a snapshot
C16_Witness ==
    /\ lastOp.caller = "handleStartRating"
    /\ lastOp.file.name = "e.zip"
    /\ error = Some("No images found in the zip file.")
    /\ StoredLive(localStorage, now)
    /\ Len(images) = 0
    /\ stagedZipFile = Null

\* C17 (display-handle release): when a step replaces installed images by
\* other images, every object URL of the old images has been revoked
\* exactly once after the step; and no object URL of the installed images
\* is revoked.
C17_HandleRelease ==
    [][/\ (/\ phase = "open" /\ phase' = "open"
            /\ Len(images) > 0
            /\ URLsOf(images') # URLsOf(images))
           => \A url \in URLsOf(images) :
                 Has(revokedURLs', url) /\ revokedURLs'[url] = 1
       /\ phase' = "open" =>
             \A url \in URLsOf(images') : ~Has(revokedURLs', url)]_vars

Reordered == lastOp.by = "reorderImagesFromSavedOrder"

DistinctPaths(imgs) ==
    \A i, j \in DOMAIN imgs : i # j => imgs[i].path # imgs[j].path

IsPermutationOf(savedOrder, paths) ==
    /\ Len(savedOrder) = Len(paths)
    /\ \A i \in DOMAIN paths : \E j \in DOMAIN savedOrder : savedOrder[j] = paths[i]

Elements(s) == {s[i] : i \in DOMAIN s}

\* C18 (reconciliation correctness): for images of pairwise distinct paths
\* and a saved order that is a permutation of those paths, the result has
\* the saved order as its path sequence and holds exactly the input images.
C18_ReconciliationCorrect ==
    (/\ Reordered
     /\ DistinctPaths(lastOp.images)
     /\ IsPermutationOf(lastOp.savedOrder, PathsOf(lastOp.images)))
    => /\ PathsOf(lastOp.ret) = lastOp.savedOrder
       /\ Len(lastOp.ret) = Len(lastOp.images)
       /\ Elements(lastOp.ret) = Elements(lastOp.images)

\* three images were put into a saved order that moves every one of them
C18_Witness ==
    /\ Reordered
    /\ lastOp.images = <<ImgA, ImgB, ImgC>>
    /\ lastOp.savedOrder = <<"c.jpg", "a.jpg", "b.jpg">>
    /\ lastOp.ret = <<ImgC, ImgA, ImgB>>

\* C19 (length mismatch): whenever the saved order and the images differ in
\* length, the result is the input array, same elements in the same order.
C19_LengthMismatchIdentity ==
    (Reordered /\ Len(lastOp.savedOrder) # Len(lastOp.images))
    => lastOp.ret = lastOp.images

\* a saved order shorter than the images, every path of which has an image
C19_Witness ==
    /\ Reordered
    /\ lastOp.images = <<ImgA, ImgB, ImgC>>
    /\ lastOp.savedOrder = <<"c.jpg", "b.jpg">>
    /\ lastOp.ret = lastOp.images

\* C20 (all or nothing): when the lengths are equal and some saved path has
\* no image, the result is the input array; in every case the result has
\* the length of the input.
C20_AllOrNothing ==
    Reordered =>
        /\ Len(lastOp.ret) = Len(lastOp.images)
        /\ (/\ Len(lastOp.savedOrder) = Len(lastOp.images)
            /\ \E i \in DOMAIN lastOp.savedOrder :
                  lastOp.savedOrder[i] \notin Elements(PathsOf(lastOp.images)))
           => lastOp.ret = lastOp.images

\* the saved order starts with paths that have images, in another order
\* than the input, and ends with one that has none
C20_Witness ==
    /\ Reordered
    /\ lastOp.images = <<ImgA, ImgB, ImgC>>
    /\ lastOp.savedOrder = <<"b.jpg", "a.jpg", "z.png">>
    /\ lastOp.ret = lastOp.images

----------------------------------------------------------------------------
(* C21..C30: compatibility, the results projection, session identity *)

\* C21 (compatibility definition): areImagesCompatible answers true exactly
\* when the stored metadata and the images have the same length and, at
\* every index, the same path and the same size; lastModified plays no part.
C21_CompatibilityDefinition ==
    lastOp.by = "areImagesCompatible" =>
        (lastOp.ret <=>
            /\ Len(lastOp.storedMetadata) = Len(lastOp.images)
            /\ \A i \in 1..Len(lastOp.storedMetadata) :
                  /\ i <= Len(lastOp.images)
                  /\ lastOp.storedMetadata[i].path = lastOp.images[i].path
                  /\ lastOp.storedMetadata[i].size = lastOp.images[i].size)

\* the same two entries in the other order were found incompatible
C21_Witness ==
    /\ lastOp.by = "areImagesCompatible"
    /\ lastOp.images = <<ImgA, ImgB>>
    /\ PathsOf(lastOp.storedMetadata) = <<"b.jpg", "a.jpg">>
    /\ lastOp.storedMetadata[1].size = 20
    /\ lastOp.storedMetadata[2].size = 10
    /\ ~lastOp.ret

\* C22 (compatibility under permutation): for images of pairwise distinct
\* paths and a snapshot taken of them in any order, the images reconciled
\* with the snapshot's imageOrder are compatible with its imageMetadata,
\* and the images as extracted are incompatible with it whenever their path
\* differs from the stored one at some position.
C22_CompatibleOnceReconciled ==
    (lastOp.by = "reconcile" /\ DistinctPaths(lastOp.images)) =>
        /\ lastOp.after
        /\ (\E i \in DOMAIN lastOp.images :
                lastOp.images[i].path # lastOp.saved[i].path) => ~lastOp.before

\* three images extracted in another order than the snapshot's
C22_Witness ==
    /\ lastOp.by = "reconcile"
    /\ lastOp.images = <<ImgA, ImgB, ImgC>>
    /\ lastOp.saved = <<ImgC, ImgA, ImgB>>
    /\ lastOp.reconciled = lastOp.saved
    /\ lastOp.after
    /\ ~lastOp.before


\* the last step was downloadResults projecting the live ratings and notes
Projected == lastOp.by = "generateRatingResults"

\* C23: generateRatingResults returns an entry for exactly the paths that
\* are a key of the ratings map or of the notes map; the ratings of an entry
\* are the values of the path's ratings in the order they were given, and a
\* path with notes and no ratings has ratings [] and average 0.
C23_ProjectionCompleteness ==
    Projected =>
        /\ \A path \in {"a.jpg", "b.jpg"} :
               Has(lastOp.ret, path) <=> (Has(imageRatings, path) \/ Has(imageNotes, path))
        /\ DOMAIN lastOp.ret \subseteq {"a.jpg", "b.jpg"}
        /\ \A path \in DOMAIN lastOp.ret :
               IF Has(imageRatings, path)
               THEN /\ Len(lastOp.ret[path].ratings) = Len(imageRatings[path])
                    /\ \A i \in 1..Len(imageRatings[path]) :
                           lastOp.ret[path].ratings[i] = imageRatings[path][i].value
               ELSE /\ lastOp.ret[path].ratings = <<>>
                    /\ lastOp.ret[path].average = 0

\* a path with notes only was projected next to one with three ratings
C23_Witness ==
    /\ Projected
    /\ Has(imageNotes, "b.jpg") /\ ~Has(imageRatings, "b.jpg")
    /\ Has(lastOp.ret, "b.jpg") /\ lastOp.ret["b.jpg"].ratings = <<>>
    /\ Has(imageRatings, "a.jpg") /\ lastOp.ret["a.jpg"].ratings = <<5, 4, 4>>

\* some character of the text is not white space
NonBlank(text) == \E i \in 1..Len(text) : SubSeq(text, i, i) \notin {" ", "\n", "\t"}

\* C24: an entry of generateRatingResults has a notes field if and only if
\* the path has a note that is not blank once its white space is trimmed.
C24_NotesInclusion ==
    Projected =>
        \A path \in DOMAIN lastOp.ret :
            Has(lastOp.ret[path], "notes")
                <=> (Has(imageNotes, path) /\ NonBlank(imageNotes[path]))

\* a blank note was left out and a note with text was kept
C24_Witness ==
    /\ Projected
    /\ Has(imageNotes, "a.jpg") /\ imageNotes["a.jpg"] = " \n"
    /\ ~Has(lastOp.ret["a.jpg"], "notes")
    /\ Has(imageNotes, "b.jpg") /\ imageNotes["b.jpg"] = " hi "
    /\ Has(lastOp.ret["b.jpg"], "notes")

RECURSIVE ValueTotal(_, _)
ValueTotal(ratings, n) == IF n = 0 THEN 0 ELSE ratings[n].value + ValueTotal(ratings, n - 1)

\* tenths is the mean of the ratings rounded to one decimal place: no
\* other number of tenths is nearer to it
IsRoundedMean(tenths, ratings) ==
    LET n == Len(ratings)
        d == tenths * n - 10 * ValueTotal(ratings, n)
    IN  2 * (IF d < 0 THEN -d ELSE d) <= n

\* C25: the average of a non-empty sequence of ratings with values in 1..5
\* is their arithmetic mean rounded to one decimal place, and the average
\* of the empty sequence is 0; both functions that average say so.
C25_Average ==
    lastOp.by = "calculateAverage" =>
        IF Len(lastOp.ratings) = 0
        THEN lastOp.ret = 0 /\ lastOp.stored = 0
        ELSE /\ IsRoundedMean(lastOp.ret, lastOp.ratings)
             /\ IsRoundedMean(lastOp.stored, lastOp.ratings)

\* the ratings 5, 4, 4 were averaged: 4.3
C25_Witness ==
    /\ lastOp.by = "calculateAverage"
    /\ ratingValues(lastOp.ratings) = <<5, 4, 4>>
    /\ lastOp.ret = 43 /\ lastOp.stored = 43

\* C26: the results extractResultsFromProgress makes of a snapshot saved
\* from the live ratings and notes are the results downloadResults makes of
\* those ratings and notes themselves.
C26_ProjectionEquivalence ==
    lastOp.by = "extractResultsFromProgress" => lastOp.ret = Some(lastOp.live)

\* rated and annotated paths went through a save and came out the same
C26_Witness ==
    /\ lastOp.by = "extractResultsFromProgress"
    /\ lastOp.ret # Null
    /\ Has(lastOp.live, "a.jpg") /\ Has(lastOp.live["a.jpg"], "notes")
    /\ Has(lastOp.live, "b.jpg") /\ lastOp.live["b.jpg"].average = 43

\* C27: in the snapshot that any accepted save of the page leaves in the
\* slot, every path that is a key of imageRatings or of imageNotes is in
\* imageOrder.
C27_SnapshotKeyContainment ==
    (SaveFired(lastOp) /\ lastOp.quotaOk) =>
        (DOMAIN Stored(lastOp.post).imageRatings \cup DOMAIN Stored(lastOp.post).imageNotes)
            \subseteq Elements(Stored(lastOp.post).imageOrder)

\* the ratings of a ratings map, each named by its path and position
RatingSlots(ratings) ==
    UNION {{<<path, i>> : i \in 1..Len(ratings[path])} : path \in DOMAIN ratings}

\* C28: when getStorageInfo is called on a slot that holds a well-formed
\* snapshot that has not expired, it reports progress as present, with
\* imageCount the length of imageMetadata and ratedCount the number of
\* ratings over all paths, and the slot is afterwards what it was.
C28_StorageSummary ==
    (lastOp.by = "getStorageInfo" /\ StoredLive(lastOp.pre, now)) =>
        /\ lastOp.ret.hasStoredProgress
        /\ lastOp.ret.imageCount = Len(Stored(lastOp.pre).imageMetadata)
        /\ lastOp.ret.ratedCount = Cardinality(RatingSlots(Stored(lastOp.pre).imageRatings))
        /\ lastOp.post = lastOp.pre
        /\ localStorage = lastOp.pre

\* a snapshot in which one path has two ratings and another none was summed up
C28_Witness ==
    /\ lastOp.by = "getStorageInfo"
    /\ StoredLive(lastOp.pre, now)
    /\ \E path \in DOMAIN Stored(lastOp.pre).imageRatings :
           Len(Stored(lastOp.pre).imageRatings[path]) = 2
    /\ \E path \in DOMAIN Stored(lastOp.pre).imageRatings :
           Len(Stored(lastOp.pre).imageRatings[path]) = 0
    /\ lastOp.ret.ratedCount = 2
    /\ localStorage = lastOp.pre

\* C29: the session id changes only when the page is loaded, and every
\* snapshot that a save of the page writes carries the id of the session
\* that saves; loadProgress returns a well-formed unexpired snapshot
\* whatever its sessionId, and a call of processZipFile that resumes in
\* restore mode with the bundle of a snapshot of another session installs
\* that snapshot's ratings, notes and index.
C29_SessionIdentity ==
    [][/\ sessionId' # sessionId => lastOp'.caller = "Mount"
       /\ (SaveFired(lastOp') /\ lastOp'.quotaOk)
              => Stored(lastOp'.post).sessionId = sessionId'
       /\ (lastOp'.by = "loadProgress" /\ StoredLive(lastOp'.pre, now'))
              => ~lastOp'.ret.isNull
       /\ (/\ RestoreResumes(lastOp')
           /\ StoredLive(localStorage, now)
           /\ Len(Stored(localStorage).imageOrder) > 0
           /\ SameBundle(lastOp'.file, Stored(localStorage))
           /\ Stored(localStorage).sessionId # sessionId)
              => /\ imageRatings' = Stored(localStorage).imageRatings
                 /\ imageNotes' = Stored(localStorage).imageNotes
                 /\ currentImageIndex' = Stored(localStorage).currentImageIndex]_vars

\* the second session of the page has restored the snapshot of a session
\* before the first, and a save has put its own id on the snapshot
C29_Witness ==
    /\ SaveFired(lastOp) /\ lastOp.quotaOk
    /\ StoredLive(lastOp.pre, now)
    /\ Stored(lastOp.pre).sessionId = "s0"
    /\ sessionId = "s2"
    /\ Stored(localStorage).sessionId = "s2"
    /\ imageRatings = Stored(lastOp.pre).imageRatings
    /\ imageRatings # EmptyObj

\* the position of the last full stop of the name, 0 when it has none
RECURSIVE LastDot(_, _)
LastDot(name, i) ==
    IF i = 0 THEN 0
    ELSE IF SubSeq(name, i, i) = "." THEN i
    ELSE LastDot(name, i - 1)

\* the name without its trailing extension
BaseName(name) ==
    IF LastDot(name, Len(name)) = 0
    THEN name
    ELSE SubSeq(name, 1, LastDot(name, Len(name)) - 1)

\* C30: the file that downloadResults or handleDownloadStoredResults
\* exports is named <base>-results.json, <base> being the collection name
\* without its trailing extension and otherwise intact, and
\* image-ratings-results.json when no collection name is known.
C30_ExportFileName ==
    lastOp.by \in {"generateRatingResults", "extractResultsFromProgress"} =>
        lastOp.fileName = IF zipFileName = ""
                          THEN "image-ratings-results.json"
                          ELSE BaseName(zipFileName) \o "-results.json"

----------------------------------------------------------------------------
(* C31..C39: rating operations, agreement of the store's functions, the    *)
(* page's bookkeeping and position                                         *)

\* the sequence without its element at position i
WithoutAt(seq, i) == SubSeq(seq, 1, i - 1) \o SubSeq(seq, i + 1, Len(seq))

\* the step leaves the notes and the ratings of every path but path alone
OtherPathsKept(path) ==
    /\ imageNotes' = imageNotes
    /\ DOMAIN imageRatings' \ {path} = DOMAIN imageRatings \ {path}
    /\ \A other \in DOMAIN imageRatings \ {path} : imageRatings'[other] = imageRatings[other]

C32_NeverDropsOrRepeats ==
    (Reordered /\ DistinctPaths(lastOp.images)) =>
        /\ Len(lastOp.ret) = Len(lastOp.images)
        /\ Elements(lastOp.ret) = Elements(lastOp.images)

\* C33: whatever the slot holds, getStorageInfo reports hasStoredProgress
\* exactly when loadProgress, called on the same slot at the same moment,
\* returns a snapshot.
C33_PresenceAgreement ==
    getStorageInfo(localStorage, now).ret.hasStoredProgress
        <=> ~loadProgress(localStorage, now).ret.isNull

\* C34: whenever lastSaveTime is not null the slot holds a snapshot written
\* by the current session; a debounced or manual save whose write the
\* storage refused does not set lastSaveTime.
C34_SaveBookkeeping ==
    /\ lastSaveTime # Null =>
           /\ SlotPresent(localStorage)
           /\ WellFormed(localStorage[STORAGE_KEY])
           /\ Stored(localStorage).sessionId = sessionId
    /\ (/\ FailedSave(lastOp)
        /\ lastOp.caller \in {"autoSaveCallback", "saveProgressData"})
           => lastSaveTime # Some(now)

\* C35: while the page is open and storageInfo.hasStoredProgress is true,
\* the slot holds a snapshot, also after a loadProgress made for a restore
\* or for a download of the stored results has cleared the slot.
C35_StorageInfoConsistent ==
    (phase = "open" /\ storageInfo.hasStoredProgress) =>
        /\ SlotPresent(localStorage)
        /\ localStorage[STORAGE_KEY].kind = "object"

\* C36: after every step of the page, once its render and effects have run
\* and filteredImages is not empty, currentImageIndex is a position of
\* filteredImages (and no render has failed for want of a current image);
\* goToNext at the last position goes to 0 and goToPrevious at 0 goes to
\* the last position.
C36_IndexBounds ==
    [][/\ phase' # "crashed"
       /\ (phase' = "open" /\ Len(images') > 0 /\ Len(FilteredNow') > 0)
              => (0 <= currentImageIndex' /\ currentImageIndex' < Len(FilteredNow'))
       /\ (lastOp'.caller = "goToNext" /\ currentImageIndex = Len(FilteredNow) - 1)
              => currentImageIndex' = 0
       /\ (lastOp'.caller = "goToPrevious" /\ currentImageIndex = 0)
              => currentImageIndex' = Len(FilteredNow) - 1]_vars

\* the bundle the live images were extracted from
LiveBundle == File(zipFileName, {[path |-> images[i].path, size |-> images[i].size] :
                                     i \in DOMAIN images})

\* the paths of the image on screen after a freshly loaded page, whose
\* filter is off, has restored the slot of ls from the bundle at time t
RestoredCurrentPaths(ls, t, file) ==
    LET progressData == loadProgressData(ls, t, <<>>).ret.value
    IN  {filteredImages(finalImages(extractedImages, progressData),
                        progressData.imageRatings, 0)[progressData.currentImageIndex + 1].path :
            extractedImages \in extractImagesFromZip(file, FALSE, "restore")}

\* C37: when a save of the page is followed by a restore of the same
\* bundle, the image at the restored currentImageIndex is the image that
\* was current when the save was made, whether or not a minimum-rating
\* filter was active then.
C37_RestoredPosition ==
    (/\ SaveFired(lastOp) /\ lastOp.quotaOk
     /\ StoredLive(lastOp.post, now)
     /\ Len(images) > 0 /\ Len(FilteredNow) > 0 /\ HasCurrentImage)
    => RestoredCurrentPaths(lastOp.post, now, LiveBundle) = {currentImage.path}

\* C38 as claimed: every entry of the results of generateRatingResults has
\* at least one rating or a notes field.
C38_NoEmptyEntries ==
    Projected =>
        \A path \in DOMAIN lastOp.ret :
            Len(lastOp.ret[path].ratings) >= 1 \/ Has(lastOp.ret[path], "notes")

\* the path is a key of the live ratings or notes, without any rating and
\* without a note that has text
EmptyKey(path) ==
    /\ Has(imageRatings, path) \/ Has(imageNotes, path)
    /\ Has(imageRatings, path) => imageRatings[path] = <<>>
    /\ Has(imageNotes, path) => ~NonBlank(imageNotes[path])

\* C38: a path that is a key of the ratings or of the notes has an entry in
\* the results of generateRatingResults even when all its ratings were
\* deleted and its note is blank: that entry has ratings [], average 0 and
\* no notes field; the entries without rating and notes are those of such
\* paths.
C38_EmptyEntriesKept ==
    Projected =>
        /\ \A path \in {"a.jpg", "b.jpg"} :
               EmptyKey(path) =>
                   /\ Has(lastOp.ret, path)
                   /\ lastOp.ret[path] = [ratings |-> <<>>, average |-> 0]
        /\ \A path \in DOMAIN lastOp.ret :
               (lastOp.ret[path].ratings = <<>> /\ ~Has(lastOp.ret[path], "notes"))
                   => EmptyKey(path)

\* a path left with an empty list of ratings and a blank note was exported
C38_Witness ==
    /\ Projected
    /\ Has(imageRatings, "a.jpg") /\ imageRatings["a.jpg"] = <<>>
    /\ Has(imageNotes, "a.jpg") /\ imageNotes["a.jpg"] = " \n"
    /\ Has(lastOp.ret, "a.jpg")
    /\ lastOp.ret["a.jpg"] = [ratings |-> <<>>, average |-> 0]

\* C39: while the page of a session has images they are never replaced or
\* emptied; handleZipUpload on such a page stages the file and leaves the
\* images, the index, the ratings, the notes and the slot as they are, and
\* no step taken while a file is staged there is handleStartRating.
C39_CollectionNeverReplaced ==
    [][(Len(images) > 0 /\ lastOp'.caller # "Mount") =>
           /\ images' = images
           /\ lastOp'.caller = "handleZipUpload" =>
                  /\ stagedZipFile' # Null
                  /\ stagedZipFile'.value = lastOp'.file
                  /\ liveVars' = liveVars
                  /\ localStorage' = localStorage
           /\ stagedZipFile # Null => lastOp'.caller # "handleStartRating"]_vars
====
